---- MODULE Spec2Model ----
(***************************************************************************)
(* Medious REST backend (src/backend/server.py).                           *)
(*                                                                         *)
(* The document store is modelled collection by collection: a collection   *)
(* is the sequence of its documents in insertion order, a document's _id   *)
(* is its position, and find_one returns the first match.  Every handler   *)
(* is an operator from (collections, request, clock) to (collections,      *)
(* response); an action applies one handler to one request and records     *)
(* the request and the response.  Time is counted in hours.  The           *)
(* created_at and updated_at stamps of user documents, which no handler    *)
(* reads back, are not kept.  A field a document does not have reads as    *)
(* None, as dict.get(field) does.                                          *)
(***************************************************************************)
EXTENDS Integers, Sequences, FiniteSets, TLC

VARIABLES
    users,      \* db.users
    events,     \* db.events
    posts,      \* db.posts
    follows,    \* db.follows
    now,        \* datetime.now(timezone.utc), in hours
    rlog,       \* per email: the reset token forgot_password issued last
    req,        \* the request handled last
    resp,       \* its response
    cur,        \* a pagination cursor being encoded and decoded
    stories,    \* db.stories
    comments,   \* db.comments
    messages,   \* db.messages
    event_chats, \* db.event_chats
    pending,    \* per connection: the request in flight between its read and its update
    slog        \* per supabase_user_id: the user a supabase-sync created for it

vars == <<users, events, posts, follows, now, rlog, req, resp, cur,
          stories, comments, messages, event_chats, pending, slog>>

\* The collections and records beyond the auth, event and post routes
others == <<stories, comments, messages, event_chats, pending, slog>>

----------------------------------------------------------------------------
\* Bounds of the model

MaxUsers == 2
MaxNow == 1
MaxEvents == 1
MaxPosts == 1
MaxDocs == 1
MaxPostIds == 2
MaxConns == 2
MaxStories == 1
MaxChats == 2

None == "None"

\* Values requests are drawn from

Emails == {[local |-> "a", domain |-> "x.io"], [local |-> "b", domain |-> "x.io"]}
Passwords == {"pw1", "pw2"}
Names == {"Ann"}
Providers == {"google"}
SupabaseIds == {"sb1"}
\* The supabase_user_id values of the supabase-sync specification
SyncIds == {"sb1", "sb2"}
\* EventCreate.max_participants left out: None
NoLimit == -1
\* Python's truth test of max_participants: false for None and for 0
Truthy(max_participants) == max_participants # NoLimit /\ max_participants # 0
\* EventCreate.max_participants; 0 is accepted, and the handler's truth test
\* treats it as it treats None
MaxParticipants == {0, 1}
\* str(uuid.uuid4()): a reset token is any of these; so is a guessed one
Uuids == {"u1", "u2"}
\* <<name, avatar>> of a supabase-sync request: name omitted, avatar given
SyncProfiles == {<<None, "pic">>}

NoEmail == [local |-> "", domain |-> ""]

----------------------------------------------------------------------------
\* Configuration and helper functions

JWT_SECRET == "server-secret"
JWT_EXPIRATION_HOURS == 24
RESET_EXPIRY_HOURS == 1

\* A field the document does not have: reset_token, reset_expiry
NoResetToken == None
NoExpiry == -1

\* passlib: an Argon2 hash verifies exactly the password it was made from;
\* a missing hash (None) verifies nothing.
NoHash == <<>>

get_password_hash(password) == <<"argon2", password>>

verify_password(plain_password, hashed_password) ==
    /\ hashed_password # NoHash
    /\ hashed_password[1] = "argon2"
    /\ hashed_password[2] = plain_password

\* A JWT: its payload and the key its signature was made with.
NoJwt == [user_id |-> 0, exp |-> 0, sig |-> "none"]

\* Mutant: the expiry period is not added
create_access_token_no_period(user_id, t) ==
    [user_id |-> user_id, exp |-> t, sig |-> JWT_SECRET]

create_access_token(user_id, t) ==
    [user_id |-> user_id, exp |-> t + JWT_EXPIRATION_HOURS, sig |-> JWT_SECRET]

\* Mutant: exp is not compared with the clock
verify_token_no_exp(token, t) ==
    IF token.sig # JWT_SECRET THEN [status |-> 401, detail |-> "Invalid token"]
    ELSE [status |-> 200, detail |-> "ok"]

\* jwt.decode: the signature is verified first, then exp against the clock.
verify_token(token, t) ==
    IF token.sig # JWT_SECRET THEN [status |-> 401, detail |-> "Invalid token"]
    ELSE IF token.exp <= t THEN [status |-> 401, detail |-> "Token has expired"]
    ELSE [status |-> 200, detail |-> "ok"]

\* find_one: the _id of the first document of coll that satisfies Match, 0 if none
FindOne(coll, Match(_)) ==
    LET hits == {i \in 1..Len(coll) : Match(coll[i])}
    IN IF hits = {} THEN 0 ELSE CHOOSE i \in hits : \A j \in hits : i <= j

\* A request without an Authorization header
NoCredentials == [user_id |-> 0, exp |-> 0, sig |-> "no-credentials"]

\* Mutant: a request without credentials is treated as one with a bad token
get_current_user_no_bearer(us, token, t) ==
    IF token.sig # "server-secret" \/ token.exp <= t \/ token.user_id = 0
    THEN [status |-> 401, detail |-> "Invalid token", user_id |-> 0]
    ELSE IF token.user_id \notin 1..Len(us)
    THEN [status |-> 404, detail |-> "User not found", user_id |-> 0]
    ELSE [status |-> 200, detail |-> "ok", user_id |-> token.user_id]

\* security = HTTPBearer() is resolved first: without bearer credentials it
\* raises 403 and verify_token is never called
get_current_user(us, token, t) ==
    LET v == verify_token(token, t)
    IN IF token = NoCredentials
       THEN [status |-> 403, detail |-> "Not authenticated", user_id |-> 0]
       ELSE IF v.status # 200 THEN [status |-> 401, detail |-> v.detail, user_id |-> 0]
       ELSE IF token.user_id = 0
            THEN [status |-> 401, detail |-> "Invalid token", user_id |-> 0]
       ELSE IF token.user_id \notin 1..Len(us)
            THEN [status |-> 404, detail |-> "User not found", user_id |-> 0]
       ELSE [status |-> 200, detail |-> "ok", user_id |-> token.user_id]

\* Responses: status, detail, and the parts of the body the checks read
Response(status, detail) ==
    [status |-> status, detail |-> detail, token |-> NoJwt, email |-> NoEmail,
     provider |-> None, flag |-> None]

\* AuthResponse(token, user=UserResponse(**user_to_dict(user), auth_provider=...))
AuthResponse(token, user, provider) ==
    [status |-> 200, detail |-> "ok", token |-> token, email |-> user.email,
     provider |-> provider, flag |-> None]

\* UserResponse(**user_to_dict(user), auth_provider=...)
UserResponse(user) ==
    [status |-> 200, detail |-> "ok", token |-> NoJwt, email |-> user.email,
     provider |-> user.auth_provider, flag |-> None]

NoRequest == [op |-> "none"]

----------------------------------------------------------------------------
\* Auth routes

\* Mutant: no check for an existing user of the email
register_unchecked(us, t, email, password, name) ==
    LET new_user == [email |-> email,
                     password_hash |-> <<"argon2", password>>,
                     name |-> name,
                     auth_provider |-> "email",
                     supabase_user_id |-> None,
                     avatar |-> None,
                     reset_token |-> None,
                     reset_expiry |-> -1,
                     bio |-> None,
                     location_sharing_enabled |-> None,
                     location |-> None]
    IN [users |-> Append(us, new_user),
        resp |-> AuthResponse([user_id |-> Len(us) + 1, exp |-> t + 24,
                               sig |-> "server-secret"], new_user, "email")]

\* POST /auth/register
register(us, t, email, password, name) ==
    LET existing_user == FindOne(us, LAMBDA d : d.email = email)
        new_user == [email |-> email,
                     password_hash |-> get_password_hash(password),
                     name |-> name,
                     auth_provider |-> "email",
                     supabase_user_id |-> None,
                     avatar |-> None,
                     reset_token |-> NoResetToken,
                     reset_expiry |-> NoExpiry,
                     bio |-> None,
                     location_sharing_enabled |-> None,
                     location |-> None]
    IN IF existing_user # 0
       THEN [users |-> us, resp |-> Response(400, "Email already registered")]
       ELSE [users |-> Append(us, new_user),
             resp |-> AuthResponse(create_access_token(Len(us) + 1, t), new_user, "email")]

\* Mutant: the auth_provider of the account is not looked at
login_any_provider(us, t, email, password) ==
    LET user == FindOne(us, LAMBDA d : d.email = email)
    IN IF user = 0
       THEN [users |-> us, resp |-> Response(401, "Invalid email or password")]
       ELSE IF ~verify_password(password, us[user].password_hash)
       THEN [users |-> us, resp |-> Response(401, "Invalid email or password")]
       ELSE [users |-> us,
             resp |-> AuthResponse([user_id |-> user, exp |-> t + 24,
                                    sig |-> "server-secret"], us[user],
                                   us[user].auth_provider)]

\* Mutant: an account that has a password_hash passes the provider test
login_with_hash(us, t, email, password) ==
    LET user == FindOne(us, LAMBDA d : d.email = email)
    IN IF user = 0
       THEN [users |-> us, resp |-> Response(401, "Invalid email or password")]
       ELSE IF us[user].auth_provider # "email" /\ us[user].password_hash = NoHash
       THEN [users |-> us, resp |-> Response(400, "Please use social login")]
       ELSE IF ~verify_password(password, us[user].password_hash)
       THEN [users |-> us, resp |-> Response(401, "Invalid email or password")]
       ELSE [users |-> us,
             resp |-> AuthResponse(create_access_token(user, t), us[user],
                                   us[user].auth_provider)]

\* POST /auth/login
login(us, t, email, password) ==
    LET user == FindOne(us, LAMBDA d : d.email = email)
    IN IF user = 0
       THEN [users |-> us, resp |-> Response(401, "Invalid email or password")]
       ELSE IF us[user].auth_provider # "email"
       THEN [users |-> us, resp |-> Response(400, "Please use social login")]
       ELSE IF ~verify_password(password, us[user].password_hash)
       THEN [users |-> us, resp |-> Response(401, "Invalid email or password")]
       ELSE [users |-> us,
             resp |-> AuthResponse(create_access_token(user, t), us[user],
                                   us[user].auth_provider)]

\* Mutant: an email without account is answered 404
forgot_password_reveals(us, t, email, reset_token) ==
    LET user == FindOne(us, LAMBDA d : d.email = email)
    IN IF user = 0
       THEN [users |-> us, resp |-> Response(404, "User not found"), issued |-> FALSE]
       ELSE [users |-> [us EXCEPT ![user].reset_token = reset_token,
                                  ![user].reset_expiry = t + 1],
             resp |-> [Response(200, "If the email exists, a reset link has been sent")
                           EXCEPT !.flag = "message"],
             issued |-> TRUE]

\* POST /auth/forgot-password; reset_token is the uuid4 drawn for this request
forgot_password(us, t, email, reset_token) ==
    LET user == FindOne(us, LAMBDA d : d.email = email)
        message == [Response(200, "If the email exists, a reset link has been sent")
                        EXCEPT !.flag = "message"]
    IN IF user = 0
       THEN [users |-> us, resp |-> message, issued |-> FALSE]
       ELSE [users |-> [us EXCEPT ![user].reset_token = reset_token,
                                  ![user].reset_expiry = t + RESET_EXPIRY_HOURS],
             resp |-> message, issued |-> TRUE]

\* Mutant: the new password is not stored
reset_password_not_stored(us, t, email, reset_token, new_password) ==
    LET user == FindOne(us, LAMBDA d : /\ d.email = email
                                       /\ d.reset_token = reset_token
                                       /\ d.reset_expiry > t)
    IN IF user = 0
       THEN [users |-> us, resp |-> Response(400, "Invalid or expired reset token")]
       ELSE [users |-> [us EXCEPT ![user].reset_token = None,
                                  ![user].reset_expiry = -1],
             resp |-> [Response(200, "Password has been reset successfully")
                           EXCEPT !.flag = "message"]]

\* Mutant: reset_expiry is not compared with the clock
reset_password_no_expiry(us, t, email, reset_token, new_password) ==
    LET user == FindOne(us, LAMBDA d : /\ d.email = email
                                       /\ d.reset_token = reset_token)
    IN IF user = 0
       THEN [users |-> us, resp |-> Response(400, "Invalid or expired reset token")]
       ELSE [users |-> [us EXCEPT ![user].password_hash = <<"argon2", new_password>>,
                                  ![user].reset_token = None,
                                  ![user].reset_expiry = -1],
             resp |-> [Response(200, "Password has been reset successfully")
                           EXCEPT !.flag = "message"]]

\* POST /auth/reset-password
reset_password(us, t, email, reset_token, new_password) ==
    LET user == FindOne(us, LAMBDA d : /\ d.email = email
                                       /\ d.reset_token # NoResetToken
                                       /\ d.reset_token = reset_token
                                       /\ d.reset_expiry # NoExpiry
                                       /\ d.reset_expiry > t)
    IN IF user = 0
       THEN [users |-> us, resp |-> Response(400, "Invalid or expired reset token")]
       ELSE [users |-> [us EXCEPT ![user].password_hash = get_password_hash(new_password),
                                  ![user].reset_token = NoResetToken,
                                  ![user].reset_expiry = NoExpiry],
             resp |-> [Response(200, "Password has been reset successfully")
                           EXCEPT !.flag = "message"]]

\* x or y, for optional strings
OrElse(x, y) == IF x # None THEN x ELSE y

\* Mutant: the user is looked up by email only
supabase_sync_by_email(us, t, supabase_user_id, email, auth_provider, name, avatar) ==
    LET email_exists == FindOne(us, LAMBDA d : d.email = email)
        new_user == [email |-> email,
                     password_hash |-> <<>>,
                     name |-> IF name # "None" THEN name ELSE email.local,
                     auth_provider |-> auth_provider,
                     supabase_user_id |-> supabase_user_id,
                     avatar |-> avatar,
                     reset_token |-> "None",
                     reset_expiry |-> -1,
                     bio |-> None,
                     location_sharing_enabled |-> None,
                     location |-> None]
    IN IF email_exists # 0
       THEN [users |-> [us EXCEPT ![email_exists].supabase_user_id = supabase_user_id,
                                  ![email_exists].auth_provider = auth_provider],
             resp |-> AuthResponse([user_id |-> email_exists, exp |-> t + 24,
                                    sig |-> "server-secret"],
                                   us[email_exists], auth_provider)]
       ELSE [users |-> Append(us, new_user),
             resp |-> AuthResponse([user_id |-> Len(us) + 1, exp |-> t + 24,
                                    sig |-> "server-secret"], new_user, auth_provider)]

\* POST /auth/supabase-sync
supabase_sync(us, t, supabase_user_id, email, auth_provider, name, avatar) ==
    LET existing_user == FindOne(us, LAMBDA d : d.supabase_user_id = supabase_user_id)
        email_exists == FindOne(us, LAMBDA d : d.email = email)
        new_user == [email |-> email,
                     password_hash |-> NoHash,
                     name |-> OrElse(name, email.local),
                     auth_provider |-> auth_provider,
                     supabase_user_id |-> supabase_user_id,
                     avatar |-> avatar,
                     reset_token |-> NoResetToken,
                     reset_expiry |-> NoExpiry,
                     bio |-> None,
                     location_sharing_enabled |-> None,
                     location |-> None]
    IN IF existing_user # 0
       THEN [users |-> us,
             resp |-> AuthResponse(create_access_token(existing_user, t),
                                   us[existing_user], us[existing_user].auth_provider)]
       ELSE IF email_exists # 0
       THEN \* Link the OAuth account to the existing user
            LET linked == [us[email_exists] EXCEPT
                               !.supabase_user_id = supabase_user_id,
                               !.auth_provider = auth_provider,
                               !.avatar = OrElse(avatar, us[email_exists].avatar),
                               !.name = OrElse(name, us[email_exists].name)]
            IN [users |-> [us EXCEPT ![email_exists] = linked],
                resp |-> AuthResponse(create_access_token(email_exists, t),
                                      us[email_exists], auth_provider)]
       ELSE [users |-> Append(us, new_user),
             resp |-> AuthResponse(create_access_token(Len(us) + 1, t), new_user,
                                   auth_provider)]

\* GET /auth/verify
verify_auth(us, t, token) ==
    LET current_user == get_current_user(us, token, t)
    IN IF current_user.status # 200
       THEN Response(current_user.status, current_user.detail)
       ELSE UserResponse(us[current_user.user_id])

\* GET /users/profile
get_profile(us, t, token) ==
    LET current_user == get_current_user(us, token, t)
    IN IF current_user.status # 200
       THEN Response(current_user.status, current_user.detail)
       ELSE UserResponse(us[current_user.user_id])

----------------------------------------------------------------------------
\* Event, post and social routes.  An event document keeps host_id,
\* max_participants and attendees; a post document user_id, likes and
\* created_at; a follow document follower_id and following_id.

\* $pull: every occurrence of x leaves the array
Pull(array, x) == SelectSeq(array, LAMBDA y : y # x)

\* x in array
In(x, array) == \E i \in 1..Len(array) : array[i] = x

\* delete_one({"_id": ...}) of the document at position i
DeleteAt(coll, i) == [k \in 1..(Len(coll) - 1) |-> IF k < i THEN coll[k] ELSE coll[k + 1]]

\* POST /events
create_event(us, evs, t, token, max_participants) ==
    LET current_user == get_current_user(us, token, t)
        event_doc == [host_id |-> current_user.user_id,
                      max_participants |-> max_participants,
                      attendees |-> <<>>]
    IN IF current_user.status # 200
       THEN [events |-> evs, resp |-> Response(current_user.status, current_user.detail)]
       ELSE [events |-> Append(evs, event_doc),
             resp |-> [Response(200, "ok") EXCEPT !.flag = "false"]]

\* Mutant: on a second RSVP the user stays in attendees
rsvp_event_no_pull(us, evs, t, token, event_id) ==
    LET current_user == get_current_user(us, token, t)
        user_id == current_user.user_id
    IN IF current_user.status # 200
       THEN [events |-> evs, resp |-> Response(current_user.status, current_user.detail)]
       ELSE IF event_id \notin 1..Len(evs)
       THEN [events |-> evs, resp |-> Response(404, "Event not found")]
       ELSE IF In(user_id, evs[event_id].attendees)
       THEN [events |-> evs,
             resp |-> [Response(200, "RSVP removed") EXCEPT !.flag = "false"]]
       ELSE IF Truthy(evs[event_id].max_participants)
               /\ Len(evs[event_id].attendees) >= evs[event_id].max_participants
       THEN [events |-> evs, resp |-> Response(400, "Event is full")]
       ELSE [events |-> [evs EXCEPT ![event_id].attendees = Append(@, user_id)],
             resp |-> [Response(200, "RSVP confirmed") EXCEPT !.flag = "true"]]

\* POST /events/{event_id}/rsvp
rsvp_event(us, evs, t, token, event_id) ==
    LET current_user == get_current_user(us, token, t)
        user_id == current_user.user_id
    IN IF current_user.status # 200
       THEN [events |-> evs, resp |-> Response(current_user.status, current_user.detail)]
       ELSE IF event_id \notin 1..Len(evs)
       THEN [events |-> evs, resp |-> Response(404, "Event not found")]
       ELSE IF In(user_id, evs[event_id].attendees)
       THEN \* Already attending, remove RSVP
            [events |-> [evs EXCEPT ![event_id].attendees = Pull(@, user_id)],
             resp |-> [Response(200, "RSVP removed") EXCEPT !.flag = "false"]]
       ELSE IF Truthy(evs[event_id].max_participants)
               /\ Len(evs[event_id].attendees) >= evs[event_id].max_participants
       THEN [events |-> evs, resp |-> Response(400, "Event is full")]
       ELSE [events |-> [evs EXCEPT ![event_id].attendees = Append(@, user_id)],
             resp |-> [Response(200, "RSVP confirmed") EXCEPT !.flag = "true"]]

\* POST /posts
create_post(us, ps, t, token) ==
    LET current_user == get_current_user(us, token, t)
        post_doc == [user_id |-> current_user.user_id, likes |-> <<>>, created_at |-> t]
    IN IF current_user.status # 200
       THEN [posts |-> ps, resp |-> Response(current_user.status, current_user.detail)]
       ELSE [posts |-> Append(ps, post_doc),
             resp |-> [Response(200, "ok") EXCEPT !.flag = "false"]]

\* Mutant: a like is pushed whether or not the user has liked the post
like_post_always_push(us, ps, t, token, post_id) ==
    LET current_user == get_current_user(us, token, t)
        user_id == current_user.user_id
    IN IF current_user.status # 200
       THEN [posts |-> ps, resp |-> Response(current_user.status, current_user.detail)]
       ELSE IF post_id \notin 1..Len(ps)
       THEN [posts |-> ps, resp |-> Response(404, "Post not found")]
       ELSE [posts |-> [ps EXCEPT ![post_id].likes = Append(@, user_id)],
             resp |-> [Response(200, "Post liked") EXCEPT !.flag = "true"]]

\* POST /posts/{post_id}/like
like_post(us, ps, t, token, post_id) ==
    LET current_user == get_current_user(us, token, t)
        user_id == current_user.user_id
    IN IF current_user.status # 200
       THEN [posts |-> ps, resp |-> Response(current_user.status, current_user.detail)]
       ELSE IF post_id \notin 1..Len(ps)
       THEN [posts |-> ps, resp |-> Response(404, "Post not found")]
       ELSE IF In(user_id, ps[post_id].likes)
       THEN [posts |-> [ps EXCEPT ![post_id].likes = Pull(@, user_id)],
             resp |-> [Response(200, "Like removed") EXCEPT !.flag = "false"]]
       ELSE [posts |-> [ps EXCEPT ![post_id].likes = Append(@, user_id)],
             resp |-> [Response(200, "Post liked") EXCEPT !.flag = "true"]]

\* Ids in a path.  str(_id) of a document is written as its position.  The 24
\* hexadecimal digits of an id can also be spelled in upper case: that string
\* differs from str(_id) and is written as the negative of the position.
\* ObjectId() reads both spellings as the same _id; 0 is a string it refuses.
Upper(id) == 0 - id

ObjectId(str) == IF str < 0 THEN 0 - str ELSE str

\* POST /users/{user_id}/follow
follow_user(us, fs, t, token, user_id) ==
    LET current_user == get_current_user(us, token, t)
        existing == FindOne(fs, LAMBDA d : /\ d.follower_id = current_user.user_id
                                           /\ d.following_id = user_id)
    IN IF current_user.status # 200
       THEN [follows |-> fs, resp |-> Response(current_user.status, current_user.detail)]
       ELSE IF user_id = current_user.user_id
       THEN [follows |-> fs, resp |-> Response(400, "Cannot follow yourself")]
       ELSE IF ObjectId(user_id) \notin 1..Len(us)
       THEN [follows |-> fs, resp |-> Response(404, "User not found")]
       ELSE IF existing # 0
       THEN [follows |-> DeleteAt(fs, existing),
             resp |-> [Response(200, "Unfollowed") EXCEPT !.flag = "false"]]
       ELSE [follows |-> Append(fs, [follower_id |-> current_user.user_id,
                                     following_id |-> user_id]),
             resp |-> [Response(200, "Following") EXCEPT !.flag = "true"]]

\* user_to_dict: followers_count of a user
followers_count(fs, user_id) ==
    Cardinality({i \in 1..Len(fs) : fs[i].following_id = user_id})

----------------------------------------------------------------------------
\* Profile route.  Optional request fields that are omitted are None; the
\* booleans of a document or a request are "true" and "false".

\* UserResponse of update_profile, with the profile fields of user_to_dict
ProfileResponse(user) ==
    [status |-> 200, detail |-> "ok", token |-> NoJwt, email |-> user.email,
     provider |-> user.auth_provider, flag |-> None,
     name |-> user.name, avatar |-> user.avatar, bio |-> user.bio,
     location_sharing_enabled |-> IF user.location_sharing_enabled = None
                                  THEN "false" ELSE user.location_sharing_enabled]

\* Mutant: every field of the request is stored, omitted or not
update_profile_overwrites(us, t, token, name, avatar, bio, location_sharing_enabled) ==
    LET current_user == get_current_user(us, token, t)
        id == current_user.user_id
        updated == [us[id] EXCEPT !.name = name, !.avatar = avatar, !.bio = bio,
                        !.location_sharing_enabled = location_sharing_enabled]
    IN IF current_user.status # 200
       THEN [users |-> us, resp |-> Response(current_user.status, current_user.detail)]
       ELSE [users |-> [us EXCEPT ![id] = updated], resp |-> ProfileResponse(updated)]

\* PUT /users/profile
update_profile(us, t, token, name, avatar, bio, location_sharing_enabled) ==
    LET current_user == get_current_user(us, token, t)
        id == current_user.user_id
        updated ==
            [us[id] EXCEPT
                !.name = IF name \notin {None, ""} THEN name ELSE @,
                !.avatar = IF avatar \notin {None, ""} THEN avatar ELSE @,
                !.bio = IF bio # None THEN bio ELSE @,
                !.location_sharing_enabled =
                    IF location_sharing_enabled # None
                    THEN location_sharing_enabled ELSE @,
                \* Clear location when disabling
                !.location = IF location_sharing_enabled = "false" THEN None ELSE @]
    IN IF current_user.status # 200
       THEN [users |-> us, resp |-> Response(current_user.status, current_user.detail)]
       ELSE [users |-> [us EXCEPT ![id] = updated], resp |-> ProfileResponse(updated)]

----------------------------------------------------------------------------
\* Comments, direct messages and event chat.  A comment keeps post_id and
\* user_id; a message sender_id, receiver_id and read; a chat message
\* event_id, user_id and message.

\* Mutant: the post is not looked up
create_comment_unchecked(us, ps, cs, t, token, post_id) ==
    LET current_user == get_current_user(us, token, t)
    IN IF current_user.status # 200
       THEN [comments |-> cs, resp |-> Response(current_user.status, current_user.detail)]
       ELSE [comments |-> Append(cs, [post_id |-> post_id,
                                      user_id |-> current_user.user_id]),
             resp |-> Response(200, "ok")]

\* POST /posts/{post_id}/comments
create_comment(us, ps, cs, t, token, post_id) ==
    LET current_user == get_current_user(us, token, t)
    IN IF current_user.status # 200
       THEN [comments |-> cs, resp |-> Response(current_user.status, current_user.detail)]
       ELSE IF post_id \notin 1..Len(ps)
       THEN [comments |-> cs, resp |-> Response(404, "Post not found")]
       ELSE [comments |-> Append(cs, [post_id |-> post_id,
                                      user_id |-> current_user.user_id]),
             resp |-> Response(200, "ok")]

\* POST /messages
send_message(us, ms, t, token, receiver_id) ==
    LET current_user == get_current_user(us, token, t)
    IN IF current_user.status # 200
       THEN [messages |-> ms, resp |-> Response(current_user.status, current_user.detail)]
       ELSE IF ObjectId(receiver_id) \notin 1..Len(us)
       THEN [messages |-> ms, resp |-> Response(404, "Receiver not found")]
       ELSE [messages |-> Append(ms, [sender_id |-> current_user.user_id,
                                      receiver_id |-> receiver_id,
                                      read |-> FALSE]),
             resp |-> [Response(200, "ok") EXCEPT !.flag = "false"]]

\* The response of get_event_chat: user and text of each message
ChatResponse(result) ==
    [status |-> 200, detail |-> "ok", token |-> NoJwt, email |-> NoEmail,
     provider |-> None, flag |-> None, messages |-> result]

\* Mutant: the caller is not looked for among attendees and host
send_event_chat_message_open(us, evs, ecs, t, token, event_id, message) ==
    LET current_user == get_current_user(us, token, t)
        user_id == current_user.user_id
    IN IF current_user.status # 200
       THEN [event_chats |-> ecs,
             resp |-> Response(current_user.status, current_user.detail)]
       ELSE IF event_id \notin 1..Len(evs)
       THEN [event_chats |-> ecs, resp |-> Response(404, "Event not found")]
       ELSE [event_chats |-> Append(ecs, [event_id |-> event_id, user_id |-> user_id,
                                          message |-> message]),
             resp |-> [Response(200, "Message sent") EXCEPT !.flag = "message"]]

\* POST /events/{event_id}/chat
send_event_chat_message(us, evs, ecs, t, token, event_id, message) ==
    LET current_user == get_current_user(us, token, t)
        user_id == current_user.user_id
    IN IF current_user.status # 200
       THEN [event_chats |-> ecs,
             resp |-> Response(current_user.status, current_user.detail)]
       ELSE IF event_id \notin 1..Len(evs)
       THEN [event_chats |-> ecs, resp |-> Response(404, "Event not found")]
       ELSE IF ~In(user_id, evs[event_id].attendees) /\ user_id # evs[event_id].host_id
       THEN [event_chats |-> ecs,
             resp |-> Response(403, "Must be attending event to chat")]
       ELSE [event_chats |-> Append(ecs, [event_id |-> event_id, user_id |-> user_id,
                                          message |-> message]),
             resp |-> [Response(200, "Message sent") EXCEPT !.flag = "message"]]

\* GET /events/{event_id}/chat; created_at grows with the insertion order
get_event_chat(us, evs, ecs, t, token, event_id) ==
    LET current_user == get_current_user(us, token, t)
        user_id == current_user.user_id
        found == SelectSeq(ecs, LAMBDA d : d.event_id = event_id)
        known == SelectSeq(found, LAMBDA d : d.user_id \in 1..Len(us))
        result == [i \in 1..Len(known) |->
                      [user_id |-> known[i].user_id, message |-> known[i].message]]
    IN IF current_user.status # 200
       THEN Response(current_user.status, current_user.detail)
       ELSE IF event_id \notin 1..Len(evs)
       THEN Response(404, "Event not found")
       ELSE IF ~In(user_id, evs[event_id].attendees) /\ user_id # evs[event_id].host_id
       THEN Response(403, "Must be attending event to view chat")
       ELSE ChatResponse(result)

----------------------------------------------------------------------------
\* Stories.  A story keeps user_id, views, created_at and expires_at; a
\* story that was deleted leaves Removed at its place, so that the _id of
\* the other stories stays their position.

STORY_EXPIRY_HOURS == 24

Removed == [user_id |-> 0, views |-> <<>>, created_at |-> -1, expires_at |-> -1]

\* find_one({"_id": id}) finds a document
Stored(coll, id) == id \in 1..Len(coll) /\ coll[id] # Removed

\* POST /stories; t and t2 are the two readings of the clock, for created_at
\* and for expires_at
create_story(us, ss, t, t2, token) ==
    LET current_user == get_current_user(us, token, t)
        story_doc == [user_id |-> current_user.user_id,
                      views |-> <<>>,
                      created_at |-> t,
                      expires_at |-> t2 + STORY_EXPIRY_HOURS]
    IN IF current_user.status # 200
       THEN [stories |-> ss, resp |-> Response(current_user.status, current_user.detail)]
       ELSE [stories |-> Append(ss, story_doc),
             resp |-> [Response(200, "ok") EXCEPT !.flag = "false"]]

\* The response of get_stories_feed: the _id of the stories it holds; their
\* grouping by user and their order are not kept
FeedResponse(ids) ==
    [status |-> 200, detail |-> "ok", token |-> NoJwt, email |-> NoEmail,
     provider |-> None, flag |-> None, stories |-> ids]

\* Mutant: expired stories are not filtered out
get_stories_feed_unfiltered(us, fs, ss, t, token) ==
    LET current_user == get_current_user(us, token, t)
        following_ids == {fs[i].following_id :
                              i \in {k \in 1..Len(fs) :
                                         fs[k].follower_id = current_user.user_id}}
                         \cup {current_user.user_id}
    IN IF current_user.status # 200
       THEN Response(current_user.status, current_user.detail)
       ELSE FeedResponse({i \in 1..Len(ss) : /\ ss[i] # Removed
                                              /\ ss[i].user_id \in following_ids})

\* GET /stories/feed
get_stories_feed(us, fs, ss, t, token) ==
    LET current_user == get_current_user(us, token, t)
        following_ids == {fs[i].following_id :
                              i \in {k \in 1..Len(fs) :
                                         fs[k].follower_id = current_user.user_id}}
                         \cup {current_user.user_id}
        found == {i \in 1..Len(ss) : /\ ss[i] # Removed
                                     /\ ss[i].user_id \in following_ids
                                     /\ ss[i].expires_at > t}
    IN IF current_user.status # 200
       THEN Response(current_user.status, current_user.detail)
       ELSE FeedResponse({i \in found : ss[i].user_id \in 1..Len(us)})

\* POST /stories/{story_id}/view
mark_story_viewed(us, ss, t, token, story_id) ==
    LET current_user == get_current_user(us, token, t)
        user_id == current_user.user_id
    IN IF current_user.status # 200
       THEN [stories |-> ss, resp |-> Response(current_user.status, current_user.detail)]
       ELSE IF ~Stored(ss, story_id)
       THEN [stories |-> ss, resp |-> Response(404, "Story not found")]
       ELSE IF ~In(user_id, ss[story_id].views)
       THEN [stories |-> [ss EXCEPT ![story_id].views = Append(@, user_id)],
             resp |-> [Response(200, "Story marked as viewed") EXCEPT !.flag = "message"]]
       ELSE [stories |-> ss,
             resp |-> [Response(200, "Story marked as viewed") EXCEPT !.flag = "message"]]

\* Mutant: the author of the story is not compared with the caller
delete_story_by_anyone(us, ss, t, token, story_id) ==
    LET current_user == get_current_user(us, token, t)
    IN IF current_user.status # 200
       THEN [stories |-> ss, resp |-> Response(current_user.status, current_user.detail)]
       ELSE IF ~(story_id \in 1..Len(ss) /\ ss[story_id].user_id # 0)
       THEN [stories |-> ss, resp |-> Response(404, "Story not found")]
       ELSE [stories |-> [ss EXCEPT ![story_id] =
                              [user_id |-> 0, views |-> <<>>, created_at |-> -1,
                               expires_at |-> -1]],
             resp |-> [Response(200, "Story deleted") EXCEPT !.flag = "message"]]

\* DELETE /stories/{story_id}
delete_story(us, ss, t, token, story_id) ==
    LET current_user == get_current_user(us, token, t)
    IN IF current_user.status # 200
       THEN [stories |-> ss, resp |-> Response(current_user.status, current_user.detail)]
       ELSE IF ~Stored(ss, story_id)
       THEN [stories |-> ss, resp |-> Response(404, "Story not found")]
       ELSE IF ss[story_id].user_id # current_user.user_id
       THEN [stories |-> ss, resp |-> Response(403, "Cannot delete other user's story")]
       ELSE [stories |-> [ss EXCEPT ![story_id] = Removed],
             resp |-> [Response(200, "Story deleted") EXCEPT !.flag = "message"]]

\* The TTL index on expires_at (expireAfterSeconds=0): the stories the
\* database may remove at time t
Expired(ss, t) == {i \in 1..Len(ss) : ss[i] # Removed /\ ss[i].expires_at <= t}

----------------------------------------------------------------------------
\* The tokens a client can present at time t: any token the server can have
\* signed for a stored user (more than a full expiry period ago, exactly one
\* ago, or just now), the payloads of the fresh ones signed with another key,
\* and a string that is no JWT.
IssueTimes(t) ==
    {s \in {t - JWT_EXPIRATION_HOURS - 1, t - JWT_EXPIRATION_HOURS, t} : 0 <= s}

IssuedJwts(us, t) ==
    {create_access_token(p[1], p[2]) : p \in (1..Len(us)) \X IssueTimes(t)}

TamperedJwts(us, t) ==
    {[create_access_token(u, t) EXCEPT !.sig = "other-key"] : u \in 1..Len(us)}
        \cup {[user_id |-> 0, exp |-> 0, sig |-> "malformed"]}

Jwts(us, t) == IssuedJwts(us, t) \cup TamperedJwts(us, t)

\* The tokens of clients that have just signed in
FreshJwts(us, t) == {create_access_token(u, t) : u \in 1..Len(us)}

----------------------------------------------------------------------------
\* State after start-up: empty collections

NoReset == [tok |-> NoResetToken, at |-> 0, used |-> FALSE]

\* A connection with no request in flight
Idle == [op |-> "idle"]
Conns == 1..MaxConns

InitRest ==
    /\ stories = <<>>
    /\ comments = <<>>
    /\ messages = <<>>
    /\ event_chats = <<>>
    /\ pending = [c \in Conns |-> Idle]
    /\ slog = [s \in SupabaseIds \cup SyncIds |-> 0]

Init ==
    /\ users = <<>>
    /\ events = <<>>
    /\ posts = <<>>
    /\ follows = <<>>
    /\ now = 0
    /\ rlog = [e \in Emails |-> NoReset]
    /\ req = NoRequest
    /\ resp = Response(0, "none")
    /\ cur = [stage |-> "idle"]
    /\ InitRest

\* The clock runs MaxNow hours from the hour the specification starts at
TickFrom(start) ==
    /\ now < start + MaxNow
    /\ now' = now + 1
    /\ UNCHANGED <<users, events, posts, follows, rlog, req, resp, cur, others>>

Register(email, password, name) ==
    LET r == register(users, now, email, password, name)
    IN /\ Len(r.users) <= MaxUsers
       /\ users' = r.users
       /\ resp' = r.resp
       /\ req' = [op |-> "register", email |-> email, password |-> password,
                  name |-> name]
       /\ UNCHANGED <<events, posts, follows, now, rlog, cur, others>>

Login(email, password) ==
    LET r == login(users, now, email, password)
    IN /\ users' = r.users
       /\ resp' = r.resp
       /\ req' = [op |-> "login", email |-> email, password |-> password]
       /\ UNCHANGED <<events, posts, follows, now, rlog, cur, others>>

ForgotPassword(email, reset_token) ==
    LET r == forgot_password(users, now, email, reset_token)
    IN /\ users' = r.users
       /\ resp' = r.resp
       /\ req' = [op |-> "forgot_password", email |-> email]
       /\ rlog' = IF r.issued
                  THEN [rlog EXCEPT ![email] = [tok |-> reset_token, at |-> now,
                                                used |-> FALSE]]
                  ELSE rlog
       /\ UNCHANGED <<events, posts, follows, now, cur, others>>

ResetPassword(email, reset_token, new_password) ==
    LET r == reset_password(users, now, email, reset_token, new_password)
    IN /\ users' = r.users
       /\ resp' = r.resp
       /\ req' = [op |-> "reset_password", email |-> email,
                  reset_token |-> reset_token, password |-> new_password]
       /\ rlog' = IF r.resp.status = 200 /\ rlog[email].tok = reset_token
                  THEN [rlog EXCEPT ![email].used = TRUE]
                  ELSE rlog
       /\ UNCHANGED <<events, posts, follows, now, cur, others>>

SupabaseSync(supabase_user_id, email, auth_provider, name, avatar) ==
    LET r == supabase_sync(users, now, supabase_user_id, email, auth_provider,
                           name, avatar)
    IN /\ Len(r.users) <= MaxUsers
       /\ users' = r.users
       /\ resp' = r.resp
       /\ req' = [op |-> "supabase_sync", supabase_user_id |-> supabase_user_id,
                  email |-> email, auth_provider |-> auth_provider,
                  name |-> name, avatar |-> avatar]
       /\ slog' = IF Len(r.users) > Len(users) /\ slog[supabase_user_id] = 0
                  THEN [slog EXCEPT ![supabase_user_id] = Len(r.users)]
                  ELSE slog
       /\ UNCHANGED <<events, posts, follows, now, rlog, cur,
                      stories, comments, messages, event_chats, pending>>

VerifyAuth(token) ==
    /\ resp' = verify_auth(users, now, token)
    /\ req' = [op |-> "verify_auth", token |-> token]
    /\ UNCHANGED <<users, events, posts, follows, now, rlog, cur, others>>

GetProfile(token) ==
    /\ resp' = get_profile(users, now, token)
    /\ req' = [op |-> "get_profile", token |-> token]
    /\ UNCHANGED <<users, events, posts, follows, now, rlog, cur, others>>

NextAuth ==
    \/ TickFrom(0)
    \/ \E e \in Emails, p \in Passwords, n \in Names : Register(e, p, n)
    \/ \E e \in Emails, p \in Passwords : Login(e, p)
    \/ \E e \in Emails, k \in Uuids : ForgotPassword(e, k)
    \/ \E e \in Emails, k \in Uuids, p \in Passwords : ResetPassword(e, k, p)
    \/ \E s \in SupabaseIds, e \in Emails, a \in Providers, f \in SyncProfiles :
            SupabaseSync(s, e, a, f[1], f[2])

SpecAuth == Init /\ [][NextAuth]_vars

----------------------------------------------------------------------------
\* Sign-in through the identity provider: several supabase ids, providers and
\* profiles, next to registration by password.

SyncProviders == {"google", "apple"}
SyncFields == {<<None, "pic">>, <<"Bob", None>>}

NextSync ==
    \/ \E e \in Emails, n \in Names : Register(e, "pw1", n)
    \/ \E s \in SyncIds, e \in Emails, a \in SyncProviders, f \in SyncFields :
            SupabaseSync(s, e, a, f[1], f[2])

SpecSync == Init /\ [][NextSync]_vars

----------------------------------------------------------------------------
\* The application with its accounts in place: both emails are registered,
\* and more than a full token period has passed since.

RegisteredUsers ==
    LET first == register(<<>>, 0, [local |-> "a", domain |-> "x.io"], "pw1", "Ann").users
    IN register(first, 0, [local |-> "b", domain |-> "x.io"], "pw1", "Ann").users

InitApp ==
    /\ users = RegisteredUsers
    /\ events = <<>>
    /\ posts = <<>>
    /\ follows = <<>>
    /\ now = JWT_EXPIRATION_HOURS + 1
    /\ rlog = [e \in Emails |-> NoReset]
    /\ req = NoRequest
    /\ resp = Response(0, "none")
    /\ cur = [stage |-> "idle"]
    /\ InitRest

CreateEvent(token, max_participants) ==
    LET r == create_event(users, events, now, token, max_participants)
    IN /\ Len(r.events) <= MaxEvents
       /\ events' = r.events
       /\ resp' = r.resp
       /\ req' = [op |-> "create_event", token |-> token]
       /\ UNCHANGED <<users, posts, follows, now, rlog, cur, others>>

RsvpEvent(token, event_id) ==
    LET r == rsvp_event(users, events, now, token, event_id)
    IN /\ events' = r.events
       /\ resp' = r.resp
       /\ req' = [op |-> "rsvp_event", token |-> token, id |-> event_id]
       /\ UNCHANGED <<users, posts, follows, now, rlog, cur, others>>

CreatePost(token) ==
    LET r == create_post(users, posts, now, token)
    IN /\ Len(r.posts) <= MaxPosts
       /\ posts' = r.posts
       /\ resp' = r.resp
       /\ req' = [op |-> "create_post", token |-> token]
       /\ UNCHANGED <<users, events, follows, now, rlog, cur, others>>

LikePost(token, post_id) ==
    LET r == like_post(users, posts, now, token, post_id)
    IN /\ posts' = r.posts
       /\ resp' = r.resp
       /\ req' = [op |-> "like_post", token |-> token, id |-> post_id]
       /\ UNCHANGED <<users, events, follows, now, rlog, cur, others>>

FollowUser(token, user_id) ==
    LET r == follow_user(users, follows, now, token, user_id)
    IN /\ follows' = r.follows
       /\ resp' = r.resp
       /\ req' = [op |-> "follow_user", token |-> token, id |-> user_id]
       /\ UNCHANGED <<users, events, posts, now, rlog, cur, others>>

\* Events and their RSVPs, with the clock running
NextEvents ==
    \/ TickFrom(JWT_EXPIRATION_HOURS + 1)
    \/ \E j \in Jwts(users, now), m \in MaxParticipants : CreateEvent(j, m)
    \/ \E j \in Jwts(users, now), e \in 1..MaxEvents : RsvpEvent(j, e)

SpecEvents == InitApp /\ [][NextEvents]_vars

\* Posts with their likes, and follows
NextSocial ==
    \/ \E j \in Jwts(users, now) : CreatePost(j)
    \/ \E j \in Jwts(users, now), q \in 1..MaxPosts : LikePost(j, q)
    \/ \E j \in Jwts(users, now), u \in 1..(Len(users) + 1) : FollowUser(j, u)

SpecSocial == InitApp /\ [][NextSocial]_vars

\* Every route behind get_current_user, over at most MaxDocs documents
Within == Len(events') + Len(posts') + Len(follows') <= MaxDocs

NextApp ==
    \/ \E j \in Jwts(users, now) : VerifyAuth(j)
    \/ \E j \in Jwts(users, now) : GetProfile(j)
    \/ \E j \in Jwts(users, now), m \in MaxParticipants : CreateEvent(j, m) /\ Within
    \/ \E j \in Jwts(users, now), e \in 1..MaxEvents : RsvpEvent(j, e)
    \/ \E j \in Jwts(users, now) : CreatePost(j) /\ Within
    \/ \E j \in Jwts(users, now), q \in 1..MaxPosts : LikePost(j, q)
    \/ \E j \in Jwts(users, now), u \in 1..(Len(users) + 1) : FollowUser(j, u) /\ Within

SpecApp == InitApp /\ [][NextApp]_vars

----------------------------------------------------------------------------
\* Profile updates

\* <<name, avatar, bio, location_sharing_enabled>> of a ProfileUpdate
ProfileUpdates ==
    {<<"Zed", None, None, None>>, <<"", "pic2", "", None>>,
     <<None, None, None, "false">>, <<None, None, None, None>>}

UpdateProfile(token, name, avatar, bio, location_sharing_enabled) ==
    LET r == update_profile(users, now, token, name, avatar, bio,
                            location_sharing_enabled)
    IN /\ users' = r.users
       /\ resp' = r.resp
       /\ req' = [op |-> "update_profile", token |-> token, name |-> name,
                  avatar |-> avatar, bio |-> bio,
                  location_sharing_enabled |-> location_sharing_enabled]
       /\ UNCHANGED <<events, posts, follows, now, rlog, cur, others>>

NextProfile ==
    \/ \E j \in Jwts(users, now), f \in ProfileUpdates :
            UpdateProfile(j, f[1], f[2], f[3], f[4])
    \/ \E j \in Jwts(users, now) : GetProfile(j)

SpecProfile == InitApp /\ [][NextProfile]_vars

----------------------------------------------------------------------------
\* Comments, messages, event chat and stories

ChatTexts == {"hi"}

CreateComment(token, post_id) ==
    LET r == create_comment(users, posts, comments, now, token, post_id)
    IN /\ Len(r.comments) <= MaxDocs
       /\ comments' = r.comments
       /\ resp' = r.resp
       /\ req' = [op |-> "create_comment", token |-> token, id |-> post_id]
       /\ UNCHANGED <<users, events, posts, follows, now, rlog, cur,
                      stories, messages, event_chats, pending, slog>>

SendMessage(token, receiver_id) ==
    LET r == send_message(users, messages, now, token, receiver_id)
    IN /\ Len(r.messages) <= MaxDocs
       /\ messages' = r.messages
       /\ resp' = r.resp
       /\ req' = [op |-> "send_message", token |-> token, id |-> receiver_id]
       /\ UNCHANGED <<users, events, posts, follows, now, rlog, cur,
                      stories, comments, event_chats, pending, slog>>

SendEventChatMessage(token, event_id, message) ==
    LET r == send_event_chat_message(users, events, event_chats, now, token,
                                     event_id, message)
    IN /\ Len(r.event_chats) <= MaxChats
       /\ event_chats' = r.event_chats
       /\ resp' = r.resp
       /\ req' = [op |-> "send_event_chat_message", token |-> token, id |-> event_id]
       /\ UNCHANGED <<users, events, posts, follows, now, rlog, cur,
                      stories, comments, messages, pending, slog>>

GetEventChat(token, event_id) ==
    /\ resp' = get_event_chat(users, events, event_chats, now, token, event_id)
    /\ req' = [op |-> "get_event_chat", token |-> token, id |-> event_id]
    /\ UNCHANGED <<users, events, posts, follows, now, rlog, cur, others>>

\* The clock advances by an hour while lo <= now < hi
TickWithin(lo, hi) ==
    /\ lo <= now
    /\ now < hi
    /\ now' = now + 1
    /\ UNCHANGED <<users, events, posts, follows, rlog, req, resp, cur, others>>

\* All but an hour of the life of a story passes
Sleep(start) ==
    /\ now <= start + MaxNow
    /\ now' = now + STORY_EXPIRY_HOURS - 1
    /\ UNCHANGED <<users, events, posts, follows, rlog, req, resp, cur, others>>

\* t2 is the second reading of the clock, at or after the first, now
CreateStory(token, t2) ==
    LET r == create_story(users, stories, now, t2, token)
    IN /\ Len(r.stories) <= MaxStories
       /\ stories' = r.stories
       /\ now' = t2
       /\ resp' = r.resp
       /\ req' = [op |-> "create_story", token |-> token]
       /\ UNCHANGED <<users, events, posts, follows, rlog, cur,
                      comments, messages, event_chats, pending, slog>>

GetStoriesFeed(token) ==
    /\ resp' = get_stories_feed(users, follows, stories, now, token)
    /\ req' = [op |-> "get_stories_feed", token |-> token]
    /\ UNCHANGED <<users, events, posts, follows, now, rlog, cur, others>>

MarkStoryViewed(token, story_id) ==
    LET r == mark_story_viewed(users, stories, now, token, story_id)
    IN /\ stories' = r.stories
       /\ resp' = r.resp
       /\ req' = [op |-> "mark_story_viewed", token |-> token, id |-> story_id]
       /\ UNCHANGED <<users, events, posts, follows, now, rlog, cur,
                      comments, messages, event_chats, pending, slog>>

DeleteStory(token, story_id) ==
    LET r == delete_story(users, stories, now, token, story_id)
    IN /\ stories' = r.stories
       /\ resp' = r.resp
       /\ req' = [op |-> "delete_story", token |-> token, id |-> story_id]
       /\ UNCHANGED <<users, events, posts, follows, now, rlog, cur,
                      comments, messages, event_chats, pending, slog>>

\* The database removes a story whose expires_at has passed
TtlDelete(story_id) ==
    /\ story_id \in Expired(stories, now)
    /\ stories' = [stories EXCEPT ![story_id] = Removed]
    /\ req' = [op |-> "ttl_delete", id |-> story_id]
    /\ UNCHANGED <<users, events, posts, follows, now, rlog, resp, cur,
                   comments, messages, event_chats, pending, slog>>

\* Events with their chat
NextChat ==
    \/ \E j \in FreshJwts(users, now), m \in MaxParticipants : CreateEvent(j, m)
    \/ \E j \in FreshJwts(users, now), e \in 1..MaxEvents : RsvpEvent(j, e)
    \/ \E j \in FreshJwts(users, now), e \in 1..MaxEvents, x \in ChatTexts :
            SendEventChatMessage(j, e, x)
    \/ \E j \in FreshJwts(users, now), e \in 1..MaxEvents : GetEventChat(j, e)

SpecChat == InitApp /\ [][NextChat]_vars

\* Stories from their creation to their expiry, with the clock running
StoriesStart == JWT_EXPIRATION_HOURS + 1

\* The accounts are in place, with the given events, posts, follows and stories
InitSeeded(evs, ps, fs, ss) ==
    /\ users = RegisteredUsers
    /\ events = evs
    /\ posts = ps
    /\ follows = fs
    /\ now = StoriesStart
    /\ rlog = [e \in Emails |-> NoReset]
    /\ req = NoRequest
    /\ resp = Response(0, "none")
    /\ cur = [stage |-> "idle"]
    /\ stories = ss
    /\ comments = <<>>
    /\ messages = <<>>
    /\ event_chats = <<>>
    /\ pending = [c \in Conns |-> Idle]
    /\ slog = [s \in SupabaseIds \cup SyncIds |-> 0]

\* The second user follows the first
SeedFollows ==
    follow_user(RegisteredUsers, <<>>, StoriesStart,
                create_access_token(2, StoriesStart), 1).follows

NextStories ==
    \/ TickWithin(StoriesStart, StoriesStart + MaxNow)
    \/ Sleep(StoriesStart)
    \/ TickWithin(StoriesStart + STORY_EXPIRY_HOURS - 1,
                  StoriesStart + STORY_EXPIRY_HOURS + MaxNow)
    \/ \E j \in FreshJwts(users, now), t2 \in {now, now + 1} :
            /\ t2 = now \/ now < StoriesStart + MaxNow
            /\ CreateStory(j, t2)
    \/ \E j \in FreshJwts(users, now) : GetStoriesFeed(j)
    \/ \E j \in FreshJwts(users, now), i \in 1..(MaxStories + 1) : MarkStoryViewed(j, i)
    \/ \E j \in FreshJwts(users, now), i \in 1..(MaxStories + 1) : DeleteStory(j, i)
    \/ \E i \in 1..MaxStories : TtlDelete(i)

InitStories == InitSeeded(<<>>, <<>>, SeedFollows, <<>>)

SpecStories == InitStories /\ [][NextStories]_vars

\* Every route that addresses a document by its id, called with and without
\* bearer credentials, over a few documents.  An id is the position of a
\* document, the position after the last one (a well-formed id of no
\* document) or 0 (a string that is no ObjectId).
Credentials(us, t) == FreshJwts(us, t) \cup {NoCredentials}

RECURSIVE Total(_)
Total(lens) == IF lens = <<>> THEN 0 ELSE Head(lens) + Total(Tail(lens))

\* The first user has created an event, a post and a story
SeedEvents ==
    create_event(RegisteredUsers, <<>>, StoriesStart,
                 create_access_token(1, StoriesStart), 0).events
SeedPosts ==
    create_post(RegisteredUsers, <<>>, StoriesStart,
                create_access_token(1, StoriesStart)).posts
SeedStories ==
    create_story(RegisteredUsers, <<>>, StoriesStart, StoriesStart,
                 create_access_token(1, StoriesStart)).stories

InitRoutes == InitSeeded(SeedEvents, SeedPosts, <<>>, SeedStories)

\* At most MaxDocs documents, or entries of attendees, likes and views, are
\* added to those
Few ==
    Len(follows') + Len(comments') + Len(messages') + Len(event_chats')
        + Total([i \in 1..Len(events') |-> Len(events'[i].attendees)])
        + Total([i \in 1..Len(posts') |-> Len(posts'[i].likes)])
        + Total([i \in 1..Len(stories') |-> Len(stories'[i].views)])
        <= MaxDocs

NextRoutes ==
    \/ \E j \in Credentials(users, now) : GetProfile(j)
    \/ \E j \in Credentials(users, now), e \in 0..(Len(events) + 1) :
            RsvpEvent(j, e) /\ Few
    \/ \E j \in Credentials(users, now), q \in 0..(Len(posts) + 1) :
            LikePost(j, q) /\ Few
    \/ \E j \in Credentials(users, now), q \in 0..(Len(posts) + 1) :
            CreateComment(j, q) /\ Few
    \/ \E j \in Credentials(users, now), u \in 0..(Len(users) + 1) :
            FollowUser(j, u) /\ Few
    \/ \E j \in Credentials(users, now), u \in 0..(Len(users) + 1) :
            SendMessage(j, u) /\ Few
    \/ \E j \in Credentials(users, now), i \in 0..(Len(stories) + 1) :
            MarkStoryViewed(j, i) /\ Few
    \/ \E j \in Credentials(users, now), i \in 0..(Len(stories) + 1) : DeleteStory(j, i)
    \/ \E j \in Credentials(users, now), e \in 0..(Len(events) + 1), x \in ChatTexts :
            SendEventChatMessage(j, e, x) /\ Few

SpecRoutes == InitRoutes /\ [][NextRoutes]_vars

----------------------------------------------------------------------------
\* Requests in flight.  A handler gives way to other requests at each await:
\* between the find_one that reads a document and the update_one that
\* writes it, the requests of other connections run.  The first step of a
\* request authenticates and reads, and leaves what it has read in pending;
\* the second step decides on what was read and applies its update to the
\* document as it is then.

\* rsvp_event, like_post, mark_story_viewed up to their find_one: the
\* response if the request ends there, else the document read.  array is
\* the field of the document the handler looks into.
ReadStep(us, coll, t, token, id, op, array, detail) ==
    LET current_user == get_current_user(us, token, t)
    IN IF current_user.status # 200
       THEN [done |-> TRUE, resp |-> Response(current_user.status, current_user.detail)]
       ELSE IF ~Stored(coll, id)
       THEN [done |-> TRUE, resp |-> Response(404, detail)]
       ELSE [done |-> FALSE,
             read |-> [op |-> op, user_id |-> current_user.user_id, id |-> id,
                       seen |-> coll[id][array],
                       max_participants |-> IF op = "rsvp_event"
                                            THEN coll[id].max_participants ELSE 0]]

\* rsvp_event from the test of attendees on: p is what the request has read
rsvp_event_update(evs, p) ==
    IF In(p.user_id, p.seen)
    THEN [events |-> [evs EXCEPT ![p.id].attendees = Pull(@, p.user_id)],
          resp |-> [Response(200, "RSVP removed") EXCEPT !.flag = "false"]]
    ELSE IF Truthy(p.max_participants) /\ Len(p.seen) >= p.max_participants
    THEN [events |-> evs, resp |-> Response(400, "Event is full")]
    ELSE [events |-> [evs EXCEPT ![p.id].attendees = Append(@, p.user_id)],
          resp |-> [Response(200, "RSVP confirmed") EXCEPT !.flag = "true"]]

\* like_post from the test of likes on
like_post_update(ps, p) ==
    IF In(p.user_id, p.seen)
    THEN [posts |-> [ps EXCEPT ![p.id].likes = Pull(@, p.user_id)],
          resp |-> [Response(200, "Like removed") EXCEPT !.flag = "false"]]
    ELSE [posts |-> [ps EXCEPT ![p.id].likes = Append(@, p.user_id)],
          resp |-> [Response(200, "Post liked") EXCEPT !.flag = "true"]]

\* mark_story_viewed from the test of views on; update_one matches no
\* document when the story is gone by then
mark_story_viewed_update(ss, p) ==
    IF ~In(p.user_id, p.seen) /\ ss[p.id] # Removed
    THEN [stories |-> [ss EXCEPT ![p.id].views = Append(@, p.user_id)],
          resp |-> [Response(200, "Story marked as viewed") EXCEPT !.flag = "message"]]
    ELSE [stories |-> ss,
          resp |-> [Response(200, "Story marked as viewed") EXCEPT !.flag = "message"]]

\* A request arrives on connection c and runs up to its find_one
Begin(c, r, request) ==
    /\ pending[c] = Idle
    /\ IF r.done
       THEN /\ resp' = r.resp
            /\ req' = request
            /\ UNCHANGED pending
       ELSE /\ pending' = [pending EXCEPT ![c] = r.read]
            /\ UNCHANGED <<req, resp>>
    /\ UNCHANGED <<users, events, posts, follows, now, rlog, cur,
                   stories, comments, messages, event_chats, slog>>

RsvpBegin(c, token, event_id) ==
    Begin(c, ReadStep(users, events, now, token, event_id, "rsvp_event",
                      "attendees", "Event not found"),
          [op |-> "rsvp_event", token |-> token, id |-> event_id])

LikeBegin(c, token, post_id) ==
    Begin(c, ReadStep(users, posts, now, token, post_id, "like_post",
                      "likes", "Post not found"),
          [op |-> "like_post", token |-> token, id |-> post_id])

ViewBegin(c, token, story_id) ==
    Begin(c, ReadStep(users, stories, now, token, story_id, "mark_story_viewed",
                      "views", "Story not found"),
          [op |-> "mark_story_viewed", token |-> token, id |-> story_id])

\* The request of connection c runs from its find_one to its response
RsvpEnd(c) ==
    /\ pending[c].op = "rsvp_event"
    /\ LET r == rsvp_event_update(events, pending[c])
       IN /\ events' = r.events
          /\ resp' = r.resp
    /\ req' = [op |-> "rsvp_event", token |-> create_access_token(pending[c].user_id, now),
               id |-> pending[c].id]
    /\ pending' = [pending EXCEPT ![c] = Idle]
    /\ UNCHANGED <<users, posts, follows, now, rlog, cur,
                   stories, comments, messages, event_chats, slog>>

LikeEnd(c) ==
    /\ pending[c].op = "like_post"
    /\ LET r == like_post_update(posts, pending[c])
       IN /\ posts' = r.posts
          /\ resp' = r.resp
    /\ req' = [op |-> "like_post", token |-> create_access_token(pending[c].user_id, now),
               id |-> pending[c].id]
    /\ pending' = [pending EXCEPT ![c] = Idle]
    /\ UNCHANGED <<users, events, follows, now, rlog, cur,
                   stories, comments, messages, event_chats, slog>>

ViewEnd(c) ==
    /\ pending[c].op = "mark_story_viewed"
    /\ LET r == mark_story_viewed_update(stories, pending[c])
       IN /\ stories' = r.stories
          /\ resp' = r.resp
    /\ req' = [op |-> "mark_story_viewed",
               token |-> create_access_token(pending[c].user_id, now),
               id |-> pending[c].id]
    /\ pending' = [pending EXCEPT ![c] = Idle]
    /\ UNCHANGED <<users, events, posts, follows, now, rlog, cur,
                   comments, messages, event_chats, slog>>

\* The first user has created an event for one participant
LimitedEvents ==
    create_event(RegisteredUsers, <<>>, StoriesStart,
                 create_access_token(1, StoriesStart), 1).events

InitRace == InitSeeded(LimitedEvents, SeedPosts, <<>>, SeedStories)

\* RSVPs in flight on every connection
NextRsvpRace ==
    \/ \E c \in Conns, j \in FreshJwts(users, now), e \in 1..(Len(events) + 1) :
            RsvpBegin(c, j, e)
    \/ \E c \in Conns : RsvpEnd(c)

SpecRsvpRace == InitRace /\ [][NextRsvpRace]_vars

\* At most MaxDocs + 1 entries in attendees, likes and views together
FewEntries ==
    Total([i \in 1..Len(events') |-> Len(events'[i].attendees)])
        + Total([i \in 1..Len(posts') |-> Len(posts'[i].likes)])
        + Total([i \in 1..Len(stories') |-> Len(stories'[i].views)])
        <= MaxDocs + 1

\* RSVPs, likes and views in flight on every connection
NextRace ==
    \/ \E c \in Conns, j \in FreshJwts(users, now), e \in 1..Len(events) :
            RsvpBegin(c, j, e)
    \/ \E c \in Conns : RsvpEnd(c) /\ FewEntries
    \/ \E c \in Conns, j \in FreshJwts(users, now), q \in 1..Len(posts) :
            LikeBegin(c, j, q)
    \/ \E c \in Conns : LikeEnd(c) /\ FewEntries
    \/ \E c \in Conns, j \in FreshJwts(users, now), i \in 1..Len(stories) :
            ViewBegin(c, j, i)
    \/ \E c \in Conns : ViewEnd(c) /\ FewEntries

SpecRace == InitRace /\ [][NextRace]_vars

----------------------------------------------------------------------------
\* Pagination cursors.  A str is the sequence of its characters, bytes are
\* numbers 0..255, and a datetime is the record of its fields.

\* The characters an ISO timestamp and an ObjectId string are made of, with
\* their UTF-8 codes
Chars == <<"0", "1", "2", "3", "4", "5", "6", "7", "8", "9",
           "a", "b", "c", "d", "e", "f", "-", ":", "T", ".", "+", "|">>
Codes == <<48, 49, 50, 51, 52, 53, 54, 55, 56, 57,
           97, 98, 99, 100, 101, 102, 45, 58, 84, 46, 43, 124>>

\* str.encode() and bytes.decode(), character by character
Ord(c) == Codes[CHOOSE i \in 1..Len(Chars) : Chars[i] = c]
Chr(b) == Chars[CHOOSE i \in 1..Len(Codes) : Codes[i] = b]
StrEncode(str) == [i \in 1..Len(str) |-> Ord(str[i])]
BytesDecode(bytes) == [i \in 1..Len(bytes) |-> Chr(bytes[i])]

\* The URL-safe base64 alphabet; "=" pads
B64 == <<"A", "B", "C", "D", "E", "F", "G", "H", "I", "J", "K", "L", "M",
         "N", "O", "P", "Q", "R", "S", "T", "U", "V", "W", "X", "Y", "Z",
         "a", "b", "c", "d", "e", "f", "g", "h", "i", "j", "k", "l", "m",
         "n", "o", "p", "q", "r", "s", "t", "u", "v", "w", "x", "y", "z",
         "0", "1", "2", "3", "4", "5", "6", "7", "8", "9", "-", "_">>
B64Char(v) == B64[v + 1]
B64Value(c) == (CHOOSE i \in 1..Len(B64) : B64[i] = c) - 1

\* base64.urlsafe_b64encode: three bytes make four characters
RECURSIVE urlsafe_b64encode(_)
urlsafe_b64encode(bytes) ==
    IF Len(bytes) = 0 THEN <<>>
    ELSE IF Len(bytes) = 1
    THEN <<B64Char(bytes[1] \div 4), B64Char((bytes[1] % 4) * 16), "=", "=">>
    ELSE IF Len(bytes) = 2
    THEN <<B64Char(bytes[1] \div 4),
           B64Char((bytes[1] % 4) * 16 + bytes[2] \div 16),
           B64Char((bytes[2] % 16) * 4), "=">>
    ELSE <<B64Char(bytes[1] \div 4),
           B64Char((bytes[1] % 4) * 16 + bytes[2] \div 16),
           B64Char((bytes[2] % 16) * 4 + bytes[3] \div 64),
           B64Char(bytes[3] % 64)>>
         \o urlsafe_b64encode(SubSeq(bytes, 4, Len(bytes)))

\* base64.urlsafe_b64decode of a padded text: four characters make up to
\* three bytes
RECURSIVE urlsafe_b64decode(_)
urlsafe_b64decode(text) ==
    IF Len(text) < 4 THEN <<>>
    ELSE LET v1 == B64Value(text[1])
             v2 == B64Value(text[2])
             b1 == v1 * 4 + v2 \div 16
         IN IF text[3] = "=" THEN <<b1>>
            ELSE LET v3 == B64Value(text[3])
                     b2 == (v2 % 16) * 16 + v3 \div 4
                 IN IF text[4] = "=" THEN <<b1, b2>>
                    ELSE <<b1, b2, (v3 % 4) * 64 + B64Value(text[4])>>
                         \o urlsafe_b64decode(SubSeq(text, 5, Len(text)))

\* Decimal digits of n, zero-padded to width
RECURSIVE Digits(_, _)
Digits(n, width) ==
    IF width = 0 THEN <<>>
    ELSE Append(Digits(n \div 10, width - 1), Chars[(n % 10) + 1])

IsDigit(c) == \E d \in 1..10 : Chars[d] = c
AllDigits(str) == \A i \in 1..Len(str) : IsDigit(str[i])

\* int() of a string of digits
RECURSIVE Number(_)
Number(str) ==
    IF Len(str) = 0 THEN 0
    ELSE 10 * Number(SubSeq(str, 1, Len(str) - 1))
         + (CHOOSE d \in 0..9 : Chars[d + 1] = str[Len(str)])

OffsetUtc == <<"+", "0", "0", ":", "0", "0">>

\* Mutant: isoformat(timespec="seconds"), the microseconds are left out
isoformat_seconds(dt) ==
    Digits(dt.year, 4) \o <<"-">> \o Digits(dt.month, 2) \o <<"-">> \o Digits(dt.day, 2)
    \o <<"T">> \o Digits(dt.hour, 2) \o <<":">> \o Digits(dt.minute, 2)
    \o <<":">> \o Digits(dt.second, 2)
    \o (IF dt.tz = "utc" THEN OffsetUtc ELSE <<>>)

\* datetime.isoformat(): the microseconds are written only when not zero,
\* the offset only for an aware datetime
isoformat(dt) ==
    Digits(dt.year, 4) \o <<"-">> \o Digits(dt.month, 2) \o <<"-">> \o Digits(dt.day, 2)
    \o <<"T">> \o Digits(dt.hour, 2) \o <<":">> \o Digits(dt.minute, 2)
    \o <<":">> \o Digits(dt.second, 2)
    \o (IF dt.microsecond # 0 THEN <<".">> \o Digits(dt.microsecond, 6) ELSE <<>>)
    \o (IF dt.tz = "utc" THEN OffsetUtc ELSE <<>>)

BadDatetime == [ok |-> FALSE]

\* datetime.fromisoformat(): date, a separator, time, then optional
\* microseconds and optional offset; anything else raises ValueError
fromisoformat(str) ==
    LET n == Len(str)
        at(i, j) == SubSeq(str, i, j)
        frac == n >= 26 /\ str[20] = "."
        rest == IF frac THEN at(27, n) ELSE at(20, n)
    IN IF /\ n >= 19
          /\ AllDigits(at(1, 4)) /\ str[5] = "-" /\ AllDigits(at(6, 7))
          /\ str[8] = "-" /\ AllDigits(at(9, 10))
          /\ AllDigits(at(12, 13)) /\ str[14] = ":" /\ AllDigits(at(15, 16))
          /\ str[17] = ":" /\ AllDigits(at(18, 19))
          /\ (frac => AllDigits(at(21, 26)))
          /\ rest \in {<<>>, OffsetUtc}
       THEN [ok |-> TRUE,
             year |-> Number(at(1, 4)), month |-> Number(at(6, 7)),
             day |-> Number(at(9, 10)), hour |-> Number(at(12, 13)),
             minute |-> Number(at(15, 16)), second |-> Number(at(18, 19)),
             microsecond |-> IF frac THEN Number(at(21, 26)) ELSE 0,
             tz |-> IF rest = OffsetUtc THEN "utc" ELSE "naive"]
       ELSE BadDatetime

\* str.split(sep)
RECURSIVE Split(_, _)
Split(str, sep) ==
    LET hits == {i \in 1..Len(str) : str[i] = sep}
    IN IF hits = {} THEN <<str>>
       ELSE LET i == CHOOSE k \in hits : \A j \in hits : k <= j
            IN <<SubSeq(str, 1, i - 1)>> \o Split(SubSeq(str, i + 1, Len(str)), sep)

encode_cursor(created_at, post_id) ==
    LET cursor_str == isoformat(created_at) \o <<"|">> \o post_id
    IN urlsafe_b64encode(StrEncode(cursor_str))

\* The tuple decode_cursor returns; ok is FALSE where it raises
decode_cursor(cursor) ==
    LET decoded == BytesDecode(urlsafe_b64decode(cursor))
        parts == Split(decoded, "|")
    IN IF Len(parts) # 2 THEN [ok |-> FALSE]
       ELSE IF ~fromisoformat(parts[1]).ok THEN [ok |-> FALSE]
       ELSE [ok |-> TRUE,
             created_at |-> [f \in {"year", "month", "day", "hour", "minute",
                                    "second", "microsecond", "tz"} |->
                                fromisoformat(parts[1])[f]],
             post_id |-> parts[2]]

\* created_at of stored posts, as the driver returns it: whole milliseconds,
\* naive or (for a tz_aware client) in UTC
Datetimes ==
    [year : {2025}, month : {1, 12}, day : {9}, hour : {0, 23}, minute : {5},
     second : {0, 59}, microsecond : {0, 123000}, tz : {"naive", "utc"}]

\* str(ObjectId): 24 hexadecimal digits
ObjectIdStr(k) ==
    <<"6", "5", "a", "1", "b", "2", "c", "3", "d", "4", "e", "5", "f", "6", "0", "7",
      "1", "8", "2", "9", "3", "a">> \o <<Chars[((7 * k) % 16) + 1], Chars[(k % 16) + 1]>>

PostIds == {ObjectIdStr(k) : k \in 1..MaxPostIds}

InitCursor ==
    /\ users = <<>>
    /\ events = <<>>
    /\ posts = <<>>
    /\ follows = <<>>
    /\ now = 0
    /\ rlog = [e \in Emails |-> NoReset]
    /\ req = NoRequest
    /\ resp = Response(0, "none")
    /\ cur \in [stage : {"post"}, created_at : Datetimes, post_id : PostIds]
    /\ InitRest

\* get_feed builds next_cursor from the last post of the page
EncodeCursor ==
    /\ cur.stage = "post"
    /\ cur' = [stage |-> "cursor", created_at |-> cur.created_at,
               post_id |-> cur.post_id,
               cursor |-> encode_cursor(cur.created_at, cur.post_id)]
    /\ UNCHANGED <<users, events, posts, follows, now, rlog, req, resp, others>>

\* get_feed reads the cursor of the next request
DecodeCursor ==
    /\ cur.stage = "cursor"
    /\ cur' = [stage |-> "decoded", created_at |-> cur.created_at,
               post_id |-> cur.post_id, cursor |-> cur.cursor,
               out |-> decode_cursor(cur.cursor)]
    /\ UNCHANGED <<users, events, posts, follows, now, rlog, req, resp, others>>

NextCursor == EncodeCursor \/ DecodeCursor

SpecCursor == InitCursor /\ [][NextCursor]_vars

----------------------------------------------------------------------------
\* Checked properties of the auth routes

\* The step just taken handled a request of this kind
Handled(op) == now' = now /\ req'.op = op

\* The user document an email belongs to, 0 if none
ByEmail(us, email) == FindOne(us, LAMBDA d : d.email = email)

\* C1: after a successful register(email, password, name), login(email,
\* password) returns 200 with a token, and GET /auth/verify and GET
\* /users/profile with that token return the user of that email.
C1_RegisterThenLogin ==
    (req.op = "register" /\ resp.status = 200) =>
        LET l == login(users, now, req.email, req.password).resp
        IN /\ l.status = 200
           /\ l.token # NoJwt
           /\ verify_auth(users, now, l.token).status = 200
           /\ verify_auth(users, now, l.token).email = req.email
           /\ get_profile(users, now, l.token).status = 200
           /\ get_profile(users, now, l.token).email = req.email
           /\ verify_auth(users, now, resp.token).email = req.email

C1_Witness ==
    /\ req.op = "register"
    /\ resp.status = 200
    /\ Len(users) = 2
    /\ users[2].email = req.email

\* C6: register with an email that already belongs to a stored user returns
\* 400 with no token and leaves the users collection as it was.
C6_DuplicateRegister ==
    [][(Handled("register") /\ ByEmail(users, req'.email) # 0) =>
          /\ resp'.status = 400
          /\ resp'.token = NoJwt
          /\ users' = users]_vars

C6_Witness ==
    /\ req.op = "register"
    /\ resp.status = 400
    /\ ~verify_password(req.password, users[ByEmail(users, req.email)].password_hash)

\* The password is not the current password of the account of this email
WrongPassword(us, email, password) ==
    /\ ByEmail(us, email) # 0
    /\ ~verify_password(password, us[ByEmail(us, email)].password_hash)

\* C7 as stated: login with a registered email and a password other than
\* the account's current one, or with an email of no user, returns 401 with
\* no token and changes no stored state.
C7_LoginRejected401 ==
    [][(Handled("login") /\ (ByEmail(users, req'.email) = 0
                              \/ WrongPassword(users, req'.email, req'.password))) =>
          /\ resp'.status = 401
          /\ resp'.token = NoJwt
          /\ users' = users]_vars

\* C7 amended: the 401 is for an email of no user and for a wrong password
\* on an account whose auth_provider is "email"; a wrong password on an
\* account of another provider gets 400.  No token, no change, either way.
C7_LoginRejected ==
    [][(Handled("login") /\ (ByEmail(users, req'.email) = 0
                              \/ WrongPassword(users, req'.email, req'.password))) =>
          /\ resp'.status =
                IF ByEmail(users, req'.email) # 0
                   /\ users[ByEmail(users, req'.email)].auth_provider # "email"
                THEN 400 ELSE 401
          /\ resp'.token = NoJwt
          /\ users' = users]_vars

C7_Witness ==
    /\ req.op = "login"
    /\ resp.status = 401
    /\ WrongPassword(users, req.email, req.password)
    /\ users[ByEmail(users, req.email)].password_hash # NoHash

\* The passwords that logged the account of this email in (as far as the
\* stored hash decides)
CurrentPasswords(us, email) ==
    {p \in Passwords : ByEmail(us, email) # 0
                       /\ verify_password(p, us[ByEmail(us, email)].password_hash)}

\* C8 as stated: once reset_password(email, token, new_password) has
\* succeeded with the token forgot_password issued, login with the old
\* password returns 401 and login with the new one returns 200 and a token.
C8_ResetThenLogin ==
    [][(Handled("reset_password") /\ resp'.status = 200
        /\ rlog[req'.email].tok = req'.reset_token
        /\ req'.password \notin CurrentPasswords(users, req'.email)) =>
          /\ \A old \in CurrentPasswords(users, req'.email) :
                login(users', now', req'.email, old).resp.status = 401
          /\ login(users', now', req'.email, req'.password).resp.status = 200
          /\ login(users', now', req'.email, req'.password).resp.token # NoJwt]_vars

\* C8 amended: the same for an account whose auth_provider is "email".
C8_ResetThenLoginEmailAccount ==
    [][(Handled("reset_password") /\ resp'.status = 200
        /\ rlog[req'.email].tok = req'.reset_token
        /\ req'.password \notin CurrentPasswords(users, req'.email)
        /\ users'[ByEmail(users', req'.email)].auth_provider = "email") =>
          /\ \A old \in CurrentPasswords(users, req'.email) :
                login(users', now', req'.email, old).resp.status = 401
          /\ login(users', now', req'.email, req'.password).resp.status = 200
          /\ login(users', now', req'.email, req'.password).resp.token # NoJwt]_vars

C8_Witness ==
    /\ req.op = "reset_password"
    /\ resp.status = 200
    /\ rlog[req.email].used
    /\ users[ByEmail(users, req.email)].auth_provider = "email"
    /\ CurrentPasswords(users, req.email) = {req.password}

\* The supplied token is the one forgot_password issued last for the email,
\* less than one hour ago, and no reset has consumed it
ResetTokenGood(email, reset_token) ==
    /\ rlog[email].tok # None
    /\ rlog[email].tok = reset_token
    /\ now - rlog[email].at < 1
    /\ ~rlog[email].used

\* C9: reset_password changes a password only with the token issued last
\* for the email, less than an hour old and not consumed; otherwise it
\* returns 400 and no password_hash changes.
C9_ResetOnlyWithGoodToken ==
    [][Handled("reset_password") =>
          /\ (~ResetTokenGood(req'.email, req'.reset_token) =>
                 /\ resp'.status = 400
                 /\ Len(users') = Len(users)
                 /\ \A i \in 1..Len(users) :
                       users'[i].password_hash = users[i].password_hash)
          /\ (users' # users => ResetTokenGood(req'.email, req'.reset_token))]_vars

C9_Witness ==
    /\ req.op = "reset_password"
    /\ resp.status = 400
    /\ rlog[req.email].tok = req.reset_token
    /\ ~rlog[req.email].used
    /\ now - rlog[req.email].at >= 1

\* C10 as stated: supabase_sync with an unknown supabase_user_id and the
\* email of an account registered with email and password is rejected with
\* 400 and leaves that account as it was.
C10_SyncExistingEmailRejected ==
    [][(Handled("supabase_sync")
        /\ FindOne(users, LAMBDA d : d.supabase_user_id = req'.supabase_user_id) = 0
        /\ ByEmail(users, req'.email) # 0
        /\ users[ByEmail(users, req'.email)].password_hash # NoHash) =>
          /\ resp'.status = 400
          /\ users' = users]_vars

----------------------------------------------------------------------------
\* Checked properties of the routes behind get_current_user

AuthenticatedRoutes ==
    {"verify_auth", "get_profile", "create_event", "rsvp_event", "create_post",
     "like_post", "follow_user"}

\* The token is past its exp, or not signed with the server's secret
Rejectable(token, t) == token.exp < t \/ token.sig # JWT_SECRET

\* C2: a route behind get_current_user answers a request whose bearer token
\* is expired or does not verify under the server secret with 401, and no
\* stored document changes.
C2_BadTokenRejected ==
    [][(now' = now /\ req'.op \in AuthenticatedRoutes
        /\ Rejectable(req'.token, now)) =>
          /\ resp'.status = 401
          /\ users' = users
          /\ events' = events
          /\ posts' = posts
          /\ follows' = follows]_vars

C2_Witness ==
    /\ req.op = "like_post"
    /\ req.id \in 1..Len(posts)
    /\ req.token.sig = JWT_SECRET
    /\ req.token.user_id \in 1..Len(users)
    /\ req.token.exp < now
    /\ resp.status = 401

\* The members of an array
Members(array) == {array[i] : i \in 1..Len(array)}

\* The request just handled came from a stored user and named event_id
RsvpBy(event_id) ==
    /\ Handled("rsvp_event")
    /\ req'.id = event_id
    /\ event_id \in 1..Len(events)
    /\ get_current_user(users, req'.token, now).status = 200

\* C3 as stated: a second rsvp_event by the same user, right after the
\* first, returns the attendees list to the value it had before the first.
C3_RsvpTwiceRestoresList ==
    [][\A e \in 1..MaxEvents : RsvpBy(e) =>
          rsvp_event(users, events', now, req'.token, e).events[e].attendees
              = events[e].attendees]_vars

\* C3 amended: the second call returns the attendees to the same users, each
\* once as before (a user who was attending is now the last of the list),
\* and leaves the rest of the events as they were.
C3_RsvpTwiceRestoresMembers ==
    [][\A e \in 1..MaxEvents : RsvpBy(e) =>
          LET twice == rsvp_event(users, events', now, req'.token, e).events
          IN /\ Members(twice[e].attendees) = Members(events[e].attendees)
             /\ Len(twice[e].attendees) = Len(events[e].attendees)
             /\ [twice EXCEPT ![e].attendees = <<>>]
                   = [events EXCEPT ![e].attendees = <<>>]]_vars

C3_Witness ==
    /\ req.op = "rsvp_event"
    /\ resp.status = 200
    /\ resp.flag = "false"
    /\ req.id \in 1..Len(events)
    /\ Len(events[req.id].attendees) = 1

\* The follow relation: who follows whom
Relation(fs) == {<<fs[i].follower_id, fs[i].following_id>> : i \in 1..Len(fs)}

FollowTwiceRestores ==
    Handled("follow_user") =>
        LET twice == follow_user(users, follows', now, req'.token, req'.id).follows
        IN /\ Relation(twice) = Relation(follows)
           /\ followers_count(twice, req'.id) = followers_count(follows, req'.id)

\* C4 as stated: follow_user twice by one user on one target returns the
\* follow relation and the target's followers_count, and like_post twice on
\* one post returns the post's likes list, to the value before the first call.
C4_ToggleTwiceRestoresList ==
    [][/\ FollowTwiceRestores
       /\ \A q \in 1..Len(posts) : (Handled("like_post") /\ req'.id = q) =>
             like_post(users, posts', now, req'.token, q).posts[q].likes
                 = posts[q].likes]_vars

\* C4 amended: for like_post it is the users in likes, each once as before,
\* that the second call restores, not the order of the list.
C4_ToggleTwiceRestoresMembers ==
    [][/\ FollowTwiceRestores
       /\ \A q \in 1..Len(posts) : (Handled("like_post") /\ req'.id = q) =>
             LET twice == like_post(users, posts', now, req'.token, q).posts
             IN /\ Members(twice[q].likes) = Members(posts[q].likes)
                /\ Len(twice[q].likes) = Len(posts[q].likes)
                /\ [twice EXCEPT ![q].likes = <<>>]
                      = [posts EXCEPT ![q].likes = <<>>]]_vars

C4_Witness ==
    /\ req.op = "like_post"
    /\ resp.status = 200
    /\ resp.flag = "false"
    /\ req.id \in 1..Len(posts)
    /\ Len(posts[req.id].likes) = 1
    /\ Len(follows) = 2

----------------------------------------------------------------------------
\* Checked property of the pagination cursor

\* C5: decode_cursor(encode_cursor(created_at, post_id)) is (created_at,
\* post_id), for the created_at and id of a stored post.
C5_CursorRoundTrip ==
    cur.stage = "decoded" =>
        /\ cur.out.ok
        /\ cur.out.created_at = cur.created_at
        /\ cur.out.post_id = cur.post_id

C5_Witness ==
    /\ cur.stage = "decoded"
    /\ cur.out.ok
    /\ cur.created_at.microsecond # 0
    /\ cur.created_at.tz = "utc"
    /\ Len(cur.cursor) = 76

----------------------------------------------------------------------------
\* Checked properties of supabase-sync

BySupabaseId(us, supabase_user_id) ==
    FindOne(us, LAMBDA d : d.supabase_user_id = supabase_user_id)

\* A supabase-sync with an id and an email that no user has creates one user
\* and returns a token for it
SyncCreates ==
    (BySupabaseId(users, req'.supabase_user_id) = 0 /\ ByEmail(users, req'.email) = 0)
        => /\ Len(users') = Len(users) + 1
           /\ SubSeq(users', 1, Len(users)) = users
           /\ resp'.status = 200
           /\ resp'.token = create_access_token(Len(users'), now)

\* The sync is answered for user u and no user is created
SyncAnswersFor(u) ==
    /\ Len(users') = Len(users)
    /\ resp'.status = 200
    /\ resp'.token = create_access_token(u, now)

----------------------------------------------------------------------------
\* Checked property of forgot-password

\* C12: in every state, forgot_password answers any two emails, with or
\* without an account, with status 200 and the same body; the response of a
\* handled request is that body.
C12_ForgotPasswordSameResponse ==
    /\ \A e1 \in Emails, e2 \in Emails, k1 \in Uuids, k2 \in Uuids :
            /\ forgot_password(users, now, e1, k1).resp.status = 200
            /\ forgot_password(users, now, e1, k1).resp
                   = forgot_password(users, now, e2, k2).resp
    /\ req.op = "forgot_password" =>
            \A e \in Emails, k \in Uuids : resp = forgot_password(users, now, e, k).resp

\* forgot_password has answered for an email without account while another
\* email has one
C12_Witness ==
    /\ req.op = "forgot_password"
    /\ ByEmail(users, req.email) = 0
    /\ Len(users) = 1
    /\ resp.status = 200
    /\ resp.flag = "message"

----------------------------------------------------------------------------
\* Checked properties of the routes that address a document

GuardedRoutes ==
    {"get_profile", "create_event", "rsvp_event", "create_post", "like_post",
     "create_comment", "follow_user", "send_message", "create_story",
     "mark_story_viewed", "delete_story", "send_event_chat_message"}

Stores == <<users, events, posts, follows, stories, comments, messages, event_chats>>

\* C13: a request to an authenticated route without bearer credentials is
\* answered 403 "Not authenticated", a body that holds nothing of any stored
\* document, and no collection changes.
C13_NoCredentialsRejected ==
    [][(/\ now' = now
        /\ req'.op \in GuardedRoutes
        /\ req'.token = NoCredentials)
           => /\ resp' = Response(403, "Not authenticated")
              /\ UNCHANGED Stores]_vars

\* GET /users/profile without credentials has been refused while documents
\* are stored
C13_Witness ==
    /\ req.op = "get_profile"
    /\ req.token = NoCredentials
    /\ resp.status = 403
    /\ Len(comments) = 1
    /\ Len(users) = 2

\* The id a request addresses belongs to no stored document
Missing(op, id) ==
    CASE op \in {"rsvp_event", "send_event_chat_message"} -> id \notin 1..Len(events)
      [] op \in {"like_post", "create_comment"} -> id \notin 1..Len(posts)
      [] op \in {"follow_user", "send_message"} -> id \notin 1..Len(users)
      [] op \in {"mark_story_viewed", "delete_story"} -> ~Stored(stories, id)

\* C14: rsvp_event, like_post, create_comment, follow_user, send_message,
\* mark_story_viewed, delete_story and send_event_chat_message, called by an
\* authenticated user with an id of no stored event, post, user or story,
\* return 404 and leave every collection as it was.
C14_MissingIdIs404 ==
    [][(/\ now' = now
        /\ req'.op \in {"rsvp_event", "like_post", "create_comment", "follow_user",
                        "send_message", "mark_story_viewed", "delete_story",
                        "send_event_chat_message"}
        /\ get_current_user(users, req'.token, now).status = 200
        /\ Missing(req'.op, req'.id))
           => /\ resp'.status = 404
              /\ UNCHANGED Stores]_vars

\* delete_story has answered 404 for a story that was deleted before
C14_Witness ==
    /\ req.op = "delete_story"
    /\ resp.status = 404
    /\ req.id = 1
    /\ Len(stories) = 1
    /\ stories[1] = Removed

----------------------------------------------------------------------------
\* Checked properties of stories

Caller == get_current_user(users, req'.token, now).user_id

\* C15: a delete_story step removes nothing but the addressed story, and
\* that only for its author; for another authenticated user the response
\* is 403 and the stories, with their views, stay as they were.
C15_DeleteOnlyByAuthor ==
    [][(now' = now /\ req'.op = "delete_story")
           => /\ stories' # stories
                    => /\ Stored(stories, req'.id)
                       /\ Caller = stories[req'.id].user_id
                       /\ stories' = [stories EXCEPT ![req'.id] = Removed]
              /\ (/\ Stored(stories, req'.id)
                  /\ Caller # 0
                  /\ Caller # stories[req'.id].user_id)
                    => resp'.status = 403 /\ stories' = stories]_vars

\* A user who has viewed the story of another has been refused its deletion
C15_Witness ==
    /\ req.op = "delete_story"
    /\ resp.status = 403
    /\ Stored(stories, req.id)
    /\ stories[req.id].user_id # req.token.user_id
    /\ In(req.token.user_id, stories[req.id].views)

\* get_stories_feed returns no story whose expires_at is at or before the
\* time of the request, and none that is removed
FeedHoldsLiveStories ==
    (now' = now /\ req'.op = "get_stories_feed" /\ resp'.status = 200)
        => \A i \in resp'.stories : Stored(stories, i) /\ stories[i].expires_at > now

StoryCreated ==
    req'.op = "create_story" /\ resp'.status = 200 /\ Len(stories') = Len(stories) + 1

\* C17 as stated: a story is stored with expires_at exactly 24 hours after
\* its created_at, and the feed holds live stories only.
C17_StoryExpiryExact ==
    [][/\ StoryCreated =>
              stories'[Len(stories')].expires_at
                  = stories'[Len(stories')].created_at + STORY_EXPIRY_HOURS
       /\ FeedHoldsLiveStories]_vars

\* C17, amended: a story is stored with expires_at 24 hours after the
\* reading of the clock taken for it, which is the time the handler is done
\* with the document and is at or after created_at; the feed holds live
\* stories only.
C17_StoryExpiryFromSecondReading ==
    [][/\ StoryCreated =>
              /\ stories'[Len(stories')].expires_at = now' + STORY_EXPIRY_HOURS
              /\ stories'[Len(stories')].created_at = now
              /\ stories'[Len(stories')].expires_at
                     >= stories'[Len(stories')].created_at + STORY_EXPIRY_HOURS
       /\ FeedHoldsLiveStories]_vars

\* The feed of the author has left out their story at the very hour of its
\* expiry, before the database has removed it
C17_Witness ==
    /\ req.op = "get_stories_feed"
    /\ resp.status = 200
    /\ resp.stories = {}
    /\ \E i \in 1..Len(stories) :
            /\ stories[i] # Removed
            /\ stories[i].user_id = req.token.user_id
            /\ stories[i].expires_at = now
            /\ stories[i].expires_at = stories[i].created_at + STORY_EXPIRY_HOURS + 1

----------------------------------------------------------------------------
\* Checked property of the event chat

MayChat(user_id, event_id) ==
    In(user_id, events[event_id].attendees) \/ user_id = events[event_id].host_id

\* C16: a chat message is stored, and the chat of an event is returned, only
\* for a caller who is among the attendees of the event at the time of the
\* request or is its host; any other authenticated caller of an existing
\* event is answered 403, nothing is stored and no message is returned.
C16_ChatOnlyForAttendeesAndHost ==
    [][(/\ now' = now
        /\ req'.op \in {"send_event_chat_message", "get_event_chat"}
        /\ Caller # 0
        /\ req'.id \in 1..Len(events))
           => IF MayChat(Caller, req'.id)
              THEN /\ resp'.status = 200
                   /\ req'.op = "send_event_chat_message"
                          => /\ Len(event_chats') = Len(event_chats) + 1
                             /\ event_chats'[Len(event_chats')].user_id = Caller
                             /\ event_chats'[Len(event_chats')].event_id = req'.id
                   /\ req'.op = "get_event_chat"
                          => /\ event_chats' = event_chats
                             /\ Len(resp'.messages)
                                    = Cardinality({i \in 1..Len(event_chats) :
                                                      event_chats[i].event_id = req'.id})
              ELSE /\ resp' = Response(403, IF req'.op = "get_event_chat"
                                            THEN "Must be attending event to view chat"
                                            ELSE "Must be attending event to chat")
                   /\ event_chats' = event_chats]_vars

\* A user who has written to the chat while attending and has removed their
\* RSVP since has been refused the chat
C16_Witness ==
    /\ req.op = "get_event_chat"
    /\ resp.status = 403
    /\ req.id \in 1..Len(events)
    /\ \E i \in 1..Len(event_chats) :
            /\ event_chats[i].user_id = req.token.user_id
            /\ event_chats[i].event_id = req.id
    /\ ~In(req.token.user_id, events[req.id].attendees)

----------------------------------------------------------------------------
\* Checked property of the profile update

ProfileFields == {"name", "avatar", "bio", "location_sharing_enabled"}

\* C18: update_profile with a non-empty name stores the name and returns it;
\* each of name, avatar, bio and location_sharing_enabled that the request
\* omits keeps its value, and the documents of the other users stay as they were.
C18_UpdateProfileFrame ==
    [][(now' = now /\ req'.op = "update_profile" /\ Caller # 0)
           => /\ Len(users') = Len(users)
              /\ req'.name \notin {None, ""}
                    => users'[Caller].name = req'.name /\ resp'.name = req'.name
              /\ \A f \in ProfileFields :
                    req'[f] = None => users'[Caller][f] = users[Caller][f]
              /\ \A u \in 1..Len(users) : u # Caller => users'[u] = users[u]]_vars

\* A user whose profile was filled in before has changed the name alone
C18_Witness ==
    /\ req.op = "update_profile"
    /\ resp.status = 200
    /\ req.name = "Zed"
    /\ req.avatar = None
    /\ users[req.token.user_id].name = "Zed"
    /\ users[req.token.user_id].avatar = "pic2"
    /\ users[req.token.user_id].bio = ""
    /\ users[req.token.user_id].location_sharing_enabled = "false"
    /\ \E u \in 1..Len(users) : users[u].name = "Ann"

----------------------------------------------------------------------------
\* Checked properties of requests in flight

\* C19: the attendees of an event whose max_participants is N number at
\* most N.
C19_AttendeesWithinMax ==
    \A e \in 1..Len(events) :
        events[e].max_participants # 0
            => Len(events[e].attendees) <= events[e].max_participants

NoDuplicates(array) ==
    \A i \in 1..Len(array), k \in 1..Len(array) : array[i] = array[k] => i = k

\* C20: no user id is twice in the attendees of an event, the likes of a
\* post or the views of a story.
C20_NoUserTwice ==
    /\ \A e \in 1..Len(events) : NoDuplicates(events[e].attendees)
    /\ \A q \in 1..Len(posts) : NoDuplicates(posts[q].likes)
    /\ \A i \in 1..Len(stories) : NoDuplicates(stories[i].views)

----------------------------------------------------------------------------
\* Sign-up requests in flight.  register and supabase_sync look the email up
\* with find_one and write with insert_one or update_one after a further
\* await; create_indexes puts no unique index on users.email, so insert_one
\* accepts any document.

\* register up to its find_one
register_read(us, email, password, name) ==
    LET existing_user == FindOne(us, LAMBDA d : d.email = email)
    IN IF existing_user # 0
       THEN [done |-> TRUE, resp |-> Response(400, "Email already registered")]
       ELSE [done |-> FALSE,
             read |-> [op |-> "register", email |-> email, password |-> password,
                       name |-> name]]

\* register from insert_one on: the document is the one register builds
register_insert(us, t, p) ==
    LET new_user == register(<<>>, t, p.email, p.password, p.name).users[1]
    IN [users |-> Append(us, new_user),
        resp |-> AuthResponse(create_access_token(Len(us) + 1, t), new_user, "email")]

\* supabase_sync up to its second find_one
supabase_sync_read(us, t, supabase_user_id, email, auth_provider, name, avatar) ==
    LET existing_user == FindOne(us, LAMBDA d : d.supabase_user_id = supabase_user_id)
        email_exists == FindOne(us, LAMBDA d : d.email = email)
    IN IF existing_user # 0
       THEN [done |-> TRUE,
             resp |-> AuthResponse(create_access_token(existing_user, t),
                                   us[existing_user], us[existing_user].auth_provider)]
       ELSE [done |-> FALSE,
             read |-> [op |-> "supabase_sync", supabase_user_id |-> supabase_user_id,
                       email |-> email, auth_provider |-> auth_provider,
                       name |-> name, avatar |-> avatar,
                       email_exists |-> email_exists,
                       seen |-> IF email_exists # 0 THEN us[email_exists] ELSE None]]

\* supabase_sync from its update_one or insert_one on: the account read is
\* linked, or the document supabase_sync builds is inserted
supabase_sync_write(us, t, p) ==
    LET new_user == supabase_sync(<<>>, t, p.supabase_user_id, p.email,
                                  p.auth_provider, p.name, p.avatar).users[1]
    IN IF p.email_exists # 0
       THEN [users |-> [us EXCEPT ![p.email_exists].supabase_user_id = p.supabase_user_id,
                                  ![p.email_exists].auth_provider = p.auth_provider,
                                  ![p.email_exists].avatar = OrElse(p.avatar, p.seen.avatar),
                                  ![p.email_exists].name = OrElse(p.name, p.seen.name)],
             resp |-> AuthResponse(create_access_token(p.email_exists, t), p.seen,
                                   p.auth_provider)]
       ELSE [users |-> Append(us, new_user),
             resp |-> AuthResponse(create_access_token(Len(us) + 1, t), new_user,
                                   p.auth_provider)]

RegisterBegin(c, email, password, name) ==
    Begin(c, register_read(users, email, password, name),
          [op |-> "register", email |-> email, password |-> password, name |-> name])

SyncBegin(c, supabase_user_id, email, auth_provider, name, avatar) ==
    Begin(c, supabase_sync_read(users, now, supabase_user_id, email, auth_provider,
                                name, avatar),
          [op |-> "supabase_sync", supabase_user_id |-> supabase_user_id,
           email |-> email, auth_provider |-> auth_provider,
           name |-> name, avatar |-> avatar])

\* At most one document more than there are emails
FewUsers == Len(users') <= MaxUsers + 1

RegisterEnd(c) ==
    /\ pending[c].op = "register"
    /\ LET r == register_insert(users, now, pending[c])
       IN /\ users' = r.users
          /\ resp' = r.resp
    /\ FewUsers
    /\ req' = pending[c]
    /\ pending' = [pending EXCEPT ![c] = Idle]
    /\ UNCHANGED <<events, posts, follows, now, rlog, cur,
                   stories, comments, messages, event_chats, slog>>

SyncEnd(c) ==
    /\ pending[c].op = "supabase_sync"
    /\ LET r == supabase_sync_write(users, now, pending[c])
       IN /\ users' = r.users
          /\ resp' = r.resp
    /\ FewUsers
    /\ req' = [op |-> "supabase_sync",
               supabase_user_id |-> pending[c].supabase_user_id,
               email |-> pending[c].email, auth_provider |-> pending[c].auth_provider,
               name |-> pending[c].name, avatar |-> pending[c].avatar]
    /\ pending' = [pending EXCEPT ![c] = Idle]
    /\ UNCHANGED <<events, posts, follows, now, rlog, cur,
                   stories, comments, messages, event_chats, slog>>

NextSignUpRace ==
    \/ \E c \in Conns, e \in Emails, n \in Names : RegisterBegin(c, e, "pw1", n)
    \/ \E c \in Conns : RegisterEnd(c)
    \/ \E c \in Conns, s \in SyncIds, e \in Emails, a \in Providers, f \in SyncProfiles :
            SyncBegin(c, s, e, a, f[1], f[2])
    \/ \E c \in Conns : SyncEnd(c)

SpecSignUpRace == Init /\ [][NextSignUpRace]_vars

\* C21: no two user documents have the same email.
C21_EmailsUnique ==
    \A i \in 1..Len(users), k \in 1..Len(users) :
        users[i].email = users[k].email => i = k

----------------------------------------------------------------------------
\* Location sharing.  A location is a GeoJSON point; None where the document
\* has no location or a cleared one.

Locations == {"point1", "point2"}

\* update_location up to the test of location_sharing_enabled, which is made
\* on the user document get_current_user has read
update_location_read(us, t, token, location) ==
    LET current_user == get_current_user(us, token, t)
    IN IF current_user.status # 200
       THEN [done |-> TRUE, resp |-> Response(current_user.status, current_user.detail)]
       ELSE IF us[current_user.user_id].location_sharing_enabled # "true"
       THEN [done |-> TRUE, resp |-> Response(400, "Location sharing is not enabled")]
       ELSE [done |-> FALSE,
             read |-> [op |-> "update_location", user_id |-> current_user.user_id,
                       location |-> location]]

\* update_location from its update_one on
update_location_write(us, p) ==
    [users |-> [us EXCEPT ![p.user_id].location = p.location],
     resp |-> [Response(200, "Location updated") EXCEPT !.flag = "message"]]

\* PUT /users/location-sharing
toggle_location_sharing(us, t, token, enabled) ==
    LET current_user == get_current_user(us, token, t)
        id == current_user.user_id
    IN IF current_user.status # 200
       THEN [users |-> us, resp |-> Response(current_user.status, current_user.detail)]
       ELSE [users |-> [us EXCEPT ![id].location_sharing_enabled = enabled,
                                  \* Clear location when disabling
                                  ![id].location = IF enabled = "false" THEN None ELSE @],
             resp |-> [Response(200, "Location sharing " \o
                                     (IF enabled = "true" THEN "enabled" ELSE "disabled"))
                           EXCEPT !.flag = "message"]]

ToggleLocationSharing(token, enabled) ==
    LET r == toggle_location_sharing(users, now, token, enabled)
    IN /\ users' = r.users
       /\ resp' = r.resp
       /\ req' = [op |-> "toggle_location_sharing", token |-> token, enabled |-> enabled]
       /\ UNCHANGED <<events, posts, follows, now, rlog, cur, others>>

LocationBegin(c, token, location) ==
    Begin(c, update_location_read(users, now, token, location),
          [op |-> "update_location", token |-> token, location |-> location])

LocationEnd(c) ==
    /\ pending[c].op = "update_location"
    /\ LET r == update_location_write(users, pending[c])
       IN /\ users' = r.users
          /\ resp' = r.resp
    /\ req' = [op |-> "update_location",
               token |-> create_access_token(pending[c].user_id, now),
               location |-> pending[c].location]
    /\ pending' = [pending EXCEPT ![c] = Idle]
    /\ UNCHANGED <<events, posts, follows, now, rlog, cur,
                   stories, comments, messages, event_chats, slog>>

\* <<name, avatar, bio, location_sharing_enabled>> of the profile updates that
\* turn location sharing on and off
SharingUpdates == {<<None, None, None, "false">>, <<None, None, None, "true">>}

NextLocation ==
    \/ \E j \in FreshJwts(users, now), b \in {"true", "false"} : ToggleLocationSharing(j, b)
    \/ \E j \in FreshJwts(users, now), f \in SharingUpdates :
            UpdateProfile(j, f[1], f[2], f[3], f[4])
    \/ \E c \in Conns, j \in FreshJwts(users, now), g \in Locations : LocationBegin(c, j, g)
    \/ \E c \in Conns : LocationEnd(c)

SpecLocation == InitApp /\ [][NextLocation]_vars

\* C22: a user whose location_sharing_enabled is false or was never set has
\* no stored location.
C22_NoLocationUnlessSharing ==
    \A u \in 1..Len(users) :
        users[u].location_sharing_enabled # "true" => users[u].location = None

----------------------------------------------------------------------------
\* The feed.  created_at of a post is the hour it was inserted at; the driver
\* returns it as a naive datetime, which is what encode_cursor formats.  The
\* _id of a post is its position; inside a cursor it is spelled ObjectIdStr.

MaxFeedPosts == 3

\* limit: int = Query(default=20, le=50)
FEED_LIMIT_MAX == 50

\* cursor: Optional[str] = None; "if cursor" treats the empty string alike
NoCursor == <<>>

\* The datetime of an hour of the model's clock, and back
Datetime(t) ==
    [year |-> 2025, month |-> 1, day |-> 1 + (t \div 24), hour |-> t % 24,
     minute |-> 0, second |-> 0, microsecond |-> 0, tz |-> "naive"]

Hours(dt) == (dt.day - 1) * 24 + dt.hour

\* ObjectId(cursor_id): the _id spelled by 24 hexadecimal digits, 0 where the
\* constructor raises InvalidId
ObjectIdOf(str) ==
    LET ids == {k \in 1..16 : ObjectIdStr(k) = str}
    IN IF Len(str) = 24 /\ (\A i \in 1..Len(str) : \E h \in 1..16 : Chars[h] = str[i])
          /\ ids # {}
       THEN CHOOSE k \in ids : TRUE
       ELSE 0

\* A cursor no server has made: base64 of a text without "|"
BadCursor == urlsafe_b64encode(StrEncode(<<"2", "0", "2", "5">>))

\* sort([("created_at", -1), ("_id", -1)]) of the posts with the given ids
RECURSIVE SortDescending(_, _)
SortDescending(ps, ids) ==
    IF ids = {} THEN <<>>
    ELSE LET first == CHOOSE i \in ids :
                          \A k \in ids : \/ ps[k].created_at < ps[i].created_at
                                         \/ /\ ps[k].created_at = ps[i].created_at
                                            /\ k <= i
         IN <<first>> \o SortDescending(ps, ids \ {first})

\* Mutant: the posts of the very created_at of the cursor are left out
after_cursor_by_date(post, id, cursor_date, cursor_id) ==
    post.created_at < cursor_date

\* query["$or"]: the post comes after the cursor in the descending scan
after_cursor(post, id, cursor_date, cursor_id) ==
    \/ post.created_at < cursor_date
    \/ post.created_at = cursor_date /\ id < cursor_id

\* PaginatedPostsResponse: the _id of the posts, next_cursor and has_more
PostsResponse(result, next_cursor, has_more) ==
    [status |-> 200, detail |-> "ok", token |-> NoJwt, email |-> NoEmail,
     provider |-> None, flag |-> None,
     posts |-> result, next_cursor |-> next_cursor, has_more |-> has_more]

\* F(e), with e evaluated once
With(F(_), e) == CHOOSE r \in {F(x) : x \in {e}} : TRUE

\* What get_feed makes of its cursor: the created_at and _id the scan resumes
\* after; paged is FALSE without cursor and where decode_cursor or ObjectId
\* raises (invalid cursor, ignore)
cursor_position(cursor) ==
    IF cursor = NoCursor THEN [paged |-> FALSE, date |-> 0, id |-> 0]
    ELSE With(LAMBDA decoded :
                  IF decoded.ok /\ ObjectIdOf(decoded.post_id) # 0
                  THEN [paged |-> TRUE, date |-> Hours(decoded.created_at),
                        id |-> ObjectIdOf(decoded.post_id)]
                  ELSE [paged |-> FALSE, date |-> 0, id |-> 0],
              decode_cursor(cursor))

\* find(query): the posts of the followed users and of the caller that come
\* after the cursor
feed_query(fs, ps, user_id, position) ==
    LET following_ids == {fs[i].following_id :
                              i \in {k \in 1..Len(fs) : fs[k].follower_id = user_id}}
                         \cup {user_id}
    IN {i \in 1..Len(ps) :
            /\ ps[i].user_id \in following_ids
            /\ position.paged => after_cursor(ps[i], i, position.date, position.id)}

\* get_feed from limit(limit + 1).to_list(limit + 1) on; sorted holds the
\* matching posts in the order of the scan
feed_page(us, ps, sorted, limit) ==
    LET found == SubSeq(sorted, 1, IF Len(sorted) < limit + 1 THEN Len(sorted)
                                   ELSE limit + 1)
        has_more == Len(found) > limit
        page == IF has_more THEN SubSeq(found, 1, limit) ELSE found
        result == SelectSeq(page, LAMBDA i : ps[i].user_id \in 1..Len(us))
        last == page[Len(page)]
        next_cursor == IF has_more /\ page # <<>>
                       THEN encode_cursor(Datetime(ps[last].created_at), ObjectIdStr(last))
                       ELSE NoCursor
    IN PostsResponse(result, next_cursor, has_more)

\* GET /posts
get_feed(us, fs, ps, t, token, cursor, limit) ==
    LET current_user == get_current_user(us, token, t)
    IN IF current_user.status # 200
       THEN Response(current_user.status, current_user.detail)
       ELSE IF limit > FEED_LIMIT_MAX
       THEN Response(422, "Input should be less than or equal to 50")
       ELSE With(LAMBDA sorted : feed_page(us, ps, sorted, limit),
                 SortDescending(ps, feed_query(fs, ps, current_user.user_id,
                                               cursor_position(cursor))))

\* A client reads its feed page by page: cur keeps the posts it has got and
\* the cursor it was given last.  A request without cursor starts afresh,
\* one with the cursor given last goes on, any other ends the reading.
GetFeed(token, cursor, limit) ==
    LET goes_on == /\ cur.stage = "feed"
                   /\ cur.more
                   /\ cursor # NoCursor
                   /\ cursor = cur.next_cursor
                   /\ limit = cur.limit
                   /\ token.user_id = cur.user_id
    IN \E r \in {get_feed(users, follows, posts, now, token, cursor, limit)} :
       /\ resp' = r
       /\ req' = [op |-> "get_feed", token |-> token, cursor |-> cursor, limit |-> limit]
       /\ cur' = IF r.status # 200 THEN [stage |-> "idle"]
                 ELSE IF cursor = NoCursor
                 THEN [stage |-> "feed", user_id |-> token.user_id, limit |-> limit,
                       got |-> r.posts, next_cursor |-> r.next_cursor,
                       more |-> r.has_more]
                 ELSE IF goes_on
                 THEN [cur EXCEPT !.got = @ \o r.posts, !.next_cursor = r.next_cursor,
                                  !.more = r.has_more]
                 ELSE [stage |-> "idle"]
       /\ UNCHANGED <<users, events, posts, follows, now, rlog, others>>

\* The values of limit: none, few, the largest accepted and the first refused
Limits == {0, 1, 2, FEED_LIMIT_MAX, FEED_LIMIT_MAX + 1}

\* The posts two users can have written in two hours, in the order of their
\* insertion
RECURSIVE FeedPosts(_)
FeedPosts(n) ==
    IF n = 0 THEN {<<>>}
    ELSE FeedPosts(n - 1) \cup
         {Append(ps, create_post(RegisteredUsers, <<>>, t,
                                 create_access_token(u, t)).posts[1]) :
              ps \in {qs \in FeedPosts(n - 1) : Len(qs) = n - 1},
              u \in 1..Len(RegisteredUsers),
              t \in StoriesStart..(StoriesStart + MaxNow)}

\* Who follows whom when the feed is read: no one, or the first user the second
FeedFollows ==
    {<<>>, follow_user(RegisteredUsers, <<>>, StoriesStart,
                       create_access_token(1, StoriesStart), 2).follows}

InitFeed ==
    /\ users = RegisteredUsers
    /\ events = <<>>
    /\ posts \in {ps \in FeedPosts(MaxFeedPosts) :
                      \A i \in 1..(Len(ps) - 1) : ps[i].created_at <= ps[i + 1].created_at}
    /\ follows \in FeedFollows
    /\ now = StoriesStart + MaxNow
    /\ rlog = [e \in Emails |-> NoReset]
    /\ req = NoRequest
    /\ resp = Response(0, "none")
    /\ cur = [stage |-> "idle"]
    /\ InitRest

\* A reading starts with any limit, goes on with the cursor given last, or is
\* given a cursor no server has made
NextFeed ==
    \/ \E j \in FreshJwts(users, now), n \in Limits : GetFeed(j, NoCursor, n)
    \/ \E n \in 1..2 :
            /\ cur.stage = "feed"
            /\ GetFeed(create_access_token(cur.user_id, now), cur.next_cursor, n)
    \/ \E j \in FreshJwts(users, now) : GetFeed(j, BadCursor, 1)

SpecFeed == InitFeed /\ [][NextFeed]_vars

----------------------------------------------------------------------------
\* Checked properties of the feed

\* The posts of user_id and of the users a follow document of user_id names
Matching(user_id) ==
    {i \in 1..Len(posts) :
         \/ posts[i].user_id = user_id
         \/ \E k \in 1..Len(follows) : /\ follows[k].follower_id = user_id
                                       /\ follows[k].following_id = posts[i].user_id}

\* Post i comes before post k in descending (created_at, _id) order
Before(i, k) ==
    \/ posts[i].created_at > posts[k].created_at
    \/ posts[i].created_at = posts[k].created_at /\ i > k

Candidates ==
    LET position == cursor_position(req.cursor)
    IN {i \in Matching(req.token.user_id) :
            position.paged =>
                \/ posts[i].created_at < position.date
                \/ posts[i].created_at = position.date /\ i < position.id}

\* C24: a get_feed response holds at most limit posts, has_more is true
\* exactly when a further matching post exists after the returned page, and
\* next_cursor is present exactly when has_more is true.
C24_PageWithinLimit ==
    (req.op = "get_feed" /\ resp.status = 200) =>
        /\ Len(resp.posts) <= req.limit
        /\ resp.has_more <=> Cardinality(Candidates) > Len(resp.posts)
        /\ resp.next_cursor # NoCursor <=> resp.has_more

----------------------------------------------------------------------------
\* Follow requests in flight.  follow_user looks the follow document up with
\* find_one and deletes or inserts after a further await.  A follow document
\* that was deleted leaves Deleted at its place, so that the _id of the
\* others stays their position.

Deleted == [follower_id |-> 0, following_id |-> 0]

\* user_to_dict: following_count of a user
following_count(fs, user_id) ==
    Cardinality({i \in 1..Len(fs) : fs[i].follower_id = user_id})

\* follow_user up to its find_one on follows
follow_user_read(us, fs, t, token, user_id) ==
    LET current_user == get_current_user(us, token, t)
        existing == FindOne(fs, LAMBDA d : /\ d.follower_id = current_user.user_id
                                           /\ d.following_id = user_id)
    IN IF current_user.status # 200
       THEN [done |-> TRUE, resp |-> Response(current_user.status, current_user.detail)]
       ELSE IF user_id = current_user.user_id
       THEN [done |-> TRUE, resp |-> Response(400, "Cannot follow yourself")]
       ELSE IF ObjectId(user_id) \notin 1..Len(us)
       THEN [done |-> TRUE, resp |-> Response(404, "User not found")]
       ELSE [done |-> FALSE,
             read |-> [op |-> "follow_user", user_id |-> current_user.user_id,
                       id |-> user_id, existing |-> existing]]

\* follow_user from its delete_one or insert_one on; delete_one matches no
\* document when the one read is gone by then
follow_user_write(fs, p) ==
    IF p.existing # 0
    THEN [follows |-> [fs EXCEPT ![p.existing] = Deleted],
          resp |-> [Response(200, "Unfollowed") EXCEPT !.flag = "false"]]
    ELSE [follows |-> Append(fs, [follower_id |-> p.user_id, following_id |-> p.id]),
          resp |-> [Response(200, "Following") EXCEPT !.flag = "true"]]

FollowBegin(c, token, user_id) ==
    Begin(c, follow_user_read(users, follows, now, token, user_id),
          [op |-> "follow_user", token |-> token, id |-> user_id])

\* At most MaxDocs + 1 follow documents, deleted ones included
FewFollows == Len(follows') <= MaxDocs + 1

FollowEnd(c) ==
    /\ pending[c].op = "follow_user"
    /\ LET r == follow_user_write(follows, pending[c])
       IN /\ follows' = r.follows
          /\ resp' = r.resp
    /\ FewFollows
    /\ req' = [op |-> "follow_user",
               token |-> create_access_token(pending[c].user_id, now),
               id |-> pending[c].id]
    /\ pending' = [pending EXCEPT ![c] = Idle]
    /\ UNCHANGED <<users, events, posts, now, rlog, cur,
                   stories, comments, messages, event_chats, slog>>

\* The first user has written a post
InitFollowRace == InitSeeded(<<>>, SeedPosts, <<>>, <<>>)

\* Follows in flight on every connection, with ids in both spellings, and the
\* feed read in between
NextFollowRace ==
    \/ \E c \in Conns, j \in FreshJwts(users, now), u \in 1..Len(users) :
            FollowBegin(c, j, u) \/ FollowBegin(c, j, Upper(u))
    \/ \E c \in Conns : FollowEnd(c)
    \/ \E j \in FreshJwts(users, now) : GetFeed(j, NoCursor, FEED_LIMIT_MAX)

SpecFollowRace == InitFollowRace /\ [][NextFollowRace]_vars

----------------------------------------------------------------------------
\* Checked properties of follows

\* C25: there is at most one follow document per ordered (follower,
\* following) pair, so that followers_count and following_count of a user are
\* the numbers of distinct followers and of distinct followed users.
C25_OneFollowPerPair ==
    /\ \A i \in 1..Len(follows), k \in 1..Len(follows) :
           (follows[i] # Deleted /\ follows[i] = follows[k]) => i = k
    /\ \A u \in 1..Len(users) :
           /\ followers_count(follows, u) =
                  Cardinality({follows[i].follower_id :
                                   i \in {k \in 1..Len(follows) :
                                              follows[k].following_id = u}})
           /\ following_count(follows, u) =
                  Cardinality({follows[i].following_id :
                                   i \in {k \in 1..Len(follows) :
                                              follows[k].follower_id = u}})

\* C29: every post get_feed returns is of the caller or of a user a follow
\* document of the caller names at the time of the request; and in the feed
\* the caller reads next after unfollowing an author there is no post of that
\* author.
C29_FeedOfFollowedOnly ==
    [][/\ (req'.op = "get_feed" /\ resp'.status = 200) =>
              \A a \in 1..Len(resp'.posts) :
                  resp'.posts[a] \in {i \in 1..Len(posts') :
                      \/ posts'[i].user_id = req'.token.user_id
                      \/ \E k \in 1..Len(follows') :
                             /\ follows'[k].follower_id = req'.token.user_id
                             /\ follows'[k].following_id = posts'[i].user_id}
       /\ (/\ req.op = "follow_user" /\ resp.detail = "Unfollowed"
           /\ req'.op = "get_feed" /\ resp'.status = 200
           /\ req'.token.user_id = req.token.user_id
           /\ ObjectId(req.id) # req.token.user_id) =>
              \A a \in 1..Len(resp'.posts) :
                  posts[resp'.posts[a]].user_id # ObjectId(req.id)]_vars

\* C30: follow_user called with the id of the caller is answered 400 and
\* stores nothing, and no follow document leads from a user to that user.
C30_NoSelfFollow ==
    /\ (req.op = "follow_user" /\ resp.status \in {200, 400}
            /\ ObjectId(req.id) = req.token.user_id) => resp.status = 400
    /\ \A k \in 1..Len(follows) :
           follows[k] # Deleted => ObjectId(follows[k].following_id) # follows[k].follower_id

----------------------------------------------------------------------------
\* Direct messages between two users: GET /messages/{user_id} lists the
\* conversation and marks as read what the other user sent to the caller.

\* GET /messages/{user_id}: find on both directions, then update_many on
\* the messages from user_id to the caller that are unread.  The response
\* holds what find returned, in the order of insertion.
get_messages_with_user(us, ms, t, token, user_id) ==
    LET current_user == get_current_user(us, token, t)
        current_user_id == current_user.user_id
        found == SelectSeq(ms, LAMBDA d :
                     \/ /\ d.sender_id = current_user_id
                        /\ d.receiver_id = user_id
                     \/ /\ d.sender_id = user_id
                        /\ d.receiver_id = current_user_id)
    IN IF current_user.status # 200
       THEN [messages |-> ms, resp |-> Response(current_user.status, current_user.detail)]
       ELSE [messages |-> [i \in 1..Len(ms) |->
                              IF /\ ms[i].sender_id = user_id
                                 /\ ms[i].receiver_id = current_user_id
                                 /\ ~ms[i].read
                              THEN [ms[i] EXCEPT !.read = TRUE]
                              ELSE ms[i]],
             resp |-> ChatResponse(found)]

GetMessagesWithUser(token, user_id) ==
    LET r == get_messages_with_user(users, messages, now, token, user_id)
    IN /\ messages' = r.messages
       /\ resp' = r.resp
       /\ req' = [op |-> "get_messages_with_user", token |-> token, id |-> user_id]
       /\ UNCHANGED <<users, events, posts, follows, now, rlog, cur,
                      stories, comments, event_chats, pending, slog>>

FewMessages == Len(messages') <= MaxDocs + 1

\* send_message with room for a conversation of two messages
SendMessageTo(token, receiver_id) ==
    LET r == send_message(users, messages, now, token, receiver_id)
    IN /\ messages' = r.messages
       /\ FewMessages
       /\ resp' = r.resp
       /\ req' = [op |-> "send_message", token |-> token, id |-> receiver_id]
       /\ UNCHANGED <<users, events, posts, follows, now, rlog, cur,
                      stories, comments, event_chats, pending, slog>>

NextMessages ==
    \/ \E j \in FreshJwts(users, now), u \in 1..Len(users) : SendMessageTo(j, u)
    \/ \E j \in FreshJwts(users, now), u \in 1..Len(users) : GetMessagesWithUser(j, u)

SpecMessages == InitApp /\ [][NextMessages]_vars

\* C26: get_messages_with_user(u) called by user c sets read on exactly the
\* stored messages from u to c and changes no other message; no step takes
\* a read flag from true back to false; and no request made by the sender
\* of a message marks that message read.
C26_ReadByReceiverOnly ==
    [][LET c == get_current_user(users, req'.token, now).user_id
       IN /\ \A i \in 1..Len(messages) :
                /\ messages[i].read => messages'[i].read
                /\ messages'[i].sender_id = messages[i].sender_id
                /\ messages'[i].receiver_id = messages[i].receiver_id
          /\ (Handled("get_messages_with_user") /\ resp'.status = 200) =>
                /\ Len(messages') = Len(messages)
                /\ \A i \in 1..Len(messages) :
                      messages'[i].read =
                         \/ messages[i].read
                         \/ /\ messages[i].sender_id = req'.id
                            /\ messages[i].receiver_id = c
                /\ \A i \in 1..Len(messages) :
                      (~messages[i].read /\ messages'[i].read)
                          => messages[i].sender_id # c]_vars

----------------------------------------------------------------------------
\* Password login on an account of another provider

\* Registration by password, sign-in through the identity provider (which
\* may itself report the provider "email") and password login
NextLink ==
    \/ \E e \in Emails, p \in Passwords, n \in Names : Register(e, p, n)
    \/ \E s \in SyncIds, e \in Emails, a \in SyncProviders \cup {"email"} :
            SupabaseSync(s, e, a, None, None)
    \/ \E e \in Emails, p \in Passwords : Login(e, p)

SpecLink == Init /\ [][NextLink]_vars

\* C27: login for an account whose auth_provider is not "email" returns 400
\* and no token, whatever the password, and stores nothing; and after
\* supabase_sync has linked an identity of another provider to an account
\* that had registered with a password, login to it returns 400 and no
\* token for every password.
C27_SocialAccountLoginRefused ==
    [][/\ (Handled("login") /\ ByEmail(users, req'.email) # 0
           /\ users[ByEmail(users, req'.email)].auth_provider # "email") =>
             /\ resp'.status = 400
             /\ resp'.token = NoJwt
             /\ users' = users
       /\ (Handled("supabase_sync") /\ resp'.status = 200
           /\ req'.auth_provider # "email"
           /\ ByEmail(users, req'.email) # 0
           /\ users[ByEmail(users, req'.email)].auth_provider = "email"
           /\ users'[ByEmail(users, req'.email)].supabase_user_id
                 # users[ByEmail(users, req'.email)].supabase_user_id) =>
             \A p \in Passwords :
                /\ login(users', now', req'.email, p).resp.status = 400
                /\ login(users', now', req'.email, p).resp.token = NoJwt]_vars

\* A linked account is refused the password it registered with
C27_Witness ==
    /\ req.op = "login"
    /\ resp.status = 400
    /\ ByEmail(users, req.email) # 0
    /\ users[ByEmail(users, req.email)].auth_provider # "email"
    /\ users[ByEmail(users, req.email)].supabase_user_id # None
    /\ verify_password(req.password, users[ByEmail(users, req.email)].password_hash)

----------------------------------------------------------------------------
\* Events with and without a limit of participants, 0 among the limits

Limited == {NoLimit, 0, 1, 2}

NextFull ==
    \/ \E j \in Jwts(users, now), m \in Limited : CreateEvent(j, m)
    \/ \E j \in Jwts(users, now), e \in 1..MaxEvents : RsvpEvent(j, e)

SpecFull == InitApp /\ [][NextFull]_vars

\* C28: rsvp_event by a user who is not attending an event whose attendees
\* number max_participants or more returns 400 and leaves the attendees as
\* they are; rsvp_event by a user who is attending removes that user from
\* the attendees and returns 200, full or not.
C28_FullEventRefuses ==
    [][(Handled("rsvp_event") /\ req'.id \in 1..Len(events)
        /\ get_current_user(users, req'.token, now).status = 200) =>
          LET user_id == get_current_user(users, req'.token, now).user_id
              event == events[req'.id]
          IN /\ (/\ ~In(user_id, event.attendees)
                 /\ event.max_participants # NoLimit
                 /\ Len(event.attendees) >= event.max_participants) =>
                    /\ resp'.status = 400
                    /\ events' = events
             /\ In(user_id, event.attendees) =>
                    /\ resp'.status = 200
                    /\ ~In(user_id, events'[req'.id].attendees)
                    /\ events'[req'.id].attendees = Pull(event.attendees, user_id)]_vars

====
